---------------------------- MODULE Spec2Model ----------------------------
(***************************************************************************)
(* Pattern-analysis context (rustc_pattern_analysis/src/cx.rs) and the     *)
(* usefulness engine it serves.                                            *)
(*                                                                         *)
(* cx.rs is modelled operator by operator.  The constructor algebra and    *)
(* the matrix algorithm (crate::constructor, crate::usefulness,            *)
(* crate::pat) are used by cx.rs but are not part of the source bundle;    *)
(* they are modelled from the design description and from the contracts    *)
(* that cx.rs states about them.                                           *)
(***************************************************************************)
EXTENDS Integers, Naturals, Sequences, FiniteSets, TLC

VARIABLES
    cx,          \* MatchCheckCtxt: the oracle flags of the checking session
    scrut_ty,    \* type of the scrutinee
    arms,        \* the typed surface patterns of the match, in source order
    rows,        \* the arms after lower_pat
    report,      \* the UsefulnessReport of the engine
    hoisted,     \* the witnesses after hoist_witness_pat
    next_id,     \* OpaqueId counter of the session
    rerun,       \* report of a second check of the same match in the session
    probe,       \* a (ctor, ty) pair or a single pattern under test
    out,         \* result of the operation applied to the probe
    stack,       \* the engine's activations on matrices, innermost last
    ret,         \* the verdict an activation has just returned, if any
    pc           \* position in the pipeline

vars == <<cx, scrut_ty, arms, rows, report, hoisted, next_id, rerun, probe, out,
          stack, ret, pc>>

(***************************************************************************)
(* Option values and small helpers.                                        *)
(***************************************************************************)
None == <<>>
Some(x) == <<x>>
is_some(o) == Len(o) = 1
unwrap(o) == o[1]

Pow2(n) == 2 ^ n

RECURSIVE SeqsUpTo(_, _)
\* All sequences over S of length 0..n.
SeqsUpTo(S, n) ==
    IF n = 0 THEN {<<>>}
    ELSE LET shorter == SeqsUpTo(S, n - 1)
         IN  shorter \cup {Append(s, x) : s \in {t \in shorter : Len(t) = n - 1}, x \in S}

RECURSIVE Concat(_)
\* Flattens a sequence of sequences.
Concat(ss) == IF ss = <<>> THEN <<>> ELSE Head(ss) \o Concat(Tail(ss))

\* A sequence given as a function over 1..n, evaluated once to its elements.
Force(s) == s \o <<>>

\* F applied to the value of v: v is evaluated once, however often F uses it.
Bind(v, F(_)) == CHOOSE r \in {F(x) : x \in {v}} : TRUE

SeqMap(F(_), s) == Force([i \in 1..Len(s) |-> F(s[i])])

Range(s) == {s[i] : i \in 1..Len(s)}


(***************************************************************************)
(* Types (rustc_middle::ty::Ty), as far as cx.rs inspects them.            *)
(*   bits: the width of an integer type; ptr: pointer-sized (isize/usize). *)
(*   An ADT carries its definition: is_enum, is_box, is_local (defined in  *)
(*   the current crate), non_exhaustive (variant list), and per variant    *)
(*   its fields (type, vis = accessible from cx.module), whether its field *)
(*   list is non_exhaustive, unstable (eval_stability denies it) and       *)
(*   doc_hidden.                                                           *)
(***************************************************************************)
BoolTy == [kind |-> "Bool"]
CharTy == [kind |-> "Char"]
UintTy(n) == [kind |-> "Uint", bits |-> n, ptr |-> FALSE]
IntTy(n) == [kind |-> "Int", bits |-> n, ptr |-> FALSE]
UsizeTy(n) == [kind |-> "Uint", bits |-> n, ptr |-> TRUE]
IsizeTy(n) == [kind |-> "Int", bits |-> n, ptr |-> TRUE]
FloatTy(n) == [kind |-> "Float", bits |-> n]
StrTy == [kind |-> "Str"]
NeverTy == [kind |-> "Never"]
ParamTy == [kind |-> "Param"]
InferTy == [kind |-> "Infer"]
TupleTy(fs) == [kind |-> "Tuple", fs |-> fs]
RefTy(t) == [kind |-> "Ref", rty |-> t]
SliceTy(t) == [kind |-> "Slice", elem |-> t]
\* len is None when the length cannot be evaluated.
ArrayTy(t, len) == [kind |-> "Array", elem |-> t, len |-> len]
BoxTy(t) == [kind |-> "Adt", name |-> "Box", is_enum |-> FALSE, is_box |-> TRUE,
             is_local |-> FALSE, non_exhaustive |-> FALSE, arg0 |-> t, variants |-> <<>>]

FieldDef(t, vis) == [ty |-> t, vis |-> vis]
VariantDef(fields) ==
    [fields |-> fields, field_list_non_exhaustive |-> FALSE,
     unstable |-> FALSE, doc_hidden |-> FALSE]
EnumTy(name, local, nonexh, variants) ==
    [kind |-> "Adt", name |-> name, is_enum |-> TRUE, is_box |-> FALSE,
     is_local |-> local, non_exhaustive |-> nonexh, variants |-> variants]
StructTy(name, local, variant) ==
    [kind |-> "Adt", name |-> name, is_enum |-> FALSE, is_box |-> FALSE,
     is_local |-> local, non_exhaustive |-> FALSE, variants |-> <<variant>>]

is_integral(ty) == ty.kind \in {"Int", "Uint"}
is_ptr_sized_integral(ty) == is_integral(ty) /\ ty.ptr

(***************************************************************************)
(* The type oracle's inhabitedness query, Ty::is_inhabited_from: a type is *)
(* visibly uninhabited when it is `!`, an enum all of whose variants are   *)
(* visibly uninhabited, or an aggregate with a visibly uninhabited field.  *)
(* A field that is not accessible from the module, and a foreign variant   *)
(* with a non_exhaustive field list, hide their emptiness.                 *)
(***************************************************************************)
RECURSIVE is_inhabited_from(_)
is_inhabited_from(ty) ==
    LET variant_inhabited(ty0, v) ==
            \/ (v.field_list_non_exhaustive /\ ~ty0.is_local)
            \/ \A i \in 1..Len(v.fields) :
                  \/ ~(ty0.is_enum \/ v.fields[i].vis)
                  \/ is_inhabited_from(v.fields[i].ty)
    IN  CASE ty.kind = "Never" -> FALSE
          [] ty.kind = "Tuple" -> \A i \in 1..Len(ty.fs) : is_inhabited_from(ty.fs[i])
          [] ty.kind = "Array" ->
                IF is_some(ty.len) /\ unwrap(ty.len) = 0 THEN TRUE
                ELSE is_inhabited_from(ty.elem)
          [] ty.kind = "Adt" ->
                IF ty.is_box THEN TRUE
                ELSE IF ty.non_exhaustive /\ ~ty.is_local THEN TRUE
                ELSE \E i \in 1..Len(ty.variants) : variant_inhabited(ty, ty.variants[i])
          [] OTHER -> TRUE

\* The inhabited_predicate of one variant of an enum (cx.rs:273-276).
variant_is_inhabited(ty, v) ==
    \/ (v.field_list_non_exhaustive /\ ~ty.is_local)
    \/ \A i \in 1..Len(v.fields) : is_inhabited_from(v.fields[i].ty)

is_uninhabited(ty) == ~is_inhabited_from(ty)

\* The locality test inverted: def.did().is_local() for !def.did().is_local().
is_local_non_exhaustive_enum(ty) ==
    CASE ty.kind = "Adt" -> ty.is_enum /\ ty.non_exhaustive /\ ty.is_local
      [] OTHER -> FALSE

is_foreign_non_exhaustive_enum(ty) ==
    CASE ty.kind = "Adt" -> ty.is_enum /\ ty.non_exhaustive /\ ~ty.is_local
      [] OTHER -> FALSE

(***************************************************************************)
(* crate::constructor -- MaybeInfiniteInt.                                 *)
(* k orders the four shapes: NegInfinity < Finite(v) < JustAfterMax <      *)
(* PosInfinity.  Finite values live in the widest unsigned carrier, which  *)
(* has CarrierBits bits; one past its maximum is JustAfterMax.             *)
(***************************************************************************)
CarrierBits == 24

NegInfinity == [k |-> 0, v |-> 0]
Finite(x) == [k |-> 1, v |-> x]
JustAfterMax == [k |-> 2, v |-> 0]
PosInfinity == [k |-> 3, v |-> 0]
MiiBug == [k |-> 4, v |-> 0]

mii_lt(a, b) == a.k < b.k \/ (a.k = b.k /\ a.v < b.v)
mii_le(a, b) == a = b \/ mii_lt(a, b)
mii_max(a, b) == IF mii_lt(a, b) THEN b ELSE a
mii_min(a, b) == IF mii_lt(a, b) THEN a ELSE b

\* x ^ bias, bias being 0 or a single bit.
xor_bias(x, bias) ==
    IF bias = 0 THEN x
    ELSE IF (x \div bias) % 2 = 1 THEN x - bias ELSE x + bias

signed_bias(ty) == IF ty.kind = "Int" THEN Pow2(ty.bits - 1) ELSE 0

new_finite(ty, bits) == Finite(xor_bias(bits, signed_bias(ty)))

plus_one(m) ==
    CASE m.k = 1 -> IF m.v + 1 < Pow2(CarrierBits) THEN Finite(m.v + 1) ELSE JustAfterMax
      [] m.k = 2 -> MiiBug
      [] OTHER -> m

minus_one(m) ==
    CASE m.k = 1 -> IF m.v >= 1 THEN Finite(m.v - 1) ELSE MiiBug
      [] m.k = 2 -> Finite(Pow2(CarrierBits) - 1)
      [] OTHER -> m

(***************************************************************************)
(* crate::constructor -- IntRange {lo, hi}.  cx.rs relies on hi being one  *)
(* past the last value: hoist_pat_range takes hi.minus_one() to print an   *)
(* inclusive range, and `..MIN` is the range whose hi is Finite(0).        *)
(***************************************************************************)
IntRangeBug == [lo |-> MiiBug, hi |-> MiiBug]

from_range(lo, hi, end) ==
    LET h == IF end = "Included" THEN plus_one(hi) ELSE hi
    IN  IF ~mii_lt(lo, h) THEN IntRangeBug ELSE [lo |-> lo, hi |-> h]

from_bits(ty, bits) ==
    LET x == new_finite(ty, bits)
    IN  [lo |-> x, hi |-> plus_one(x)]

is_singleton(r) == plus_one(r.lo) = r.hi

(***************************************************************************)
(* crate::constructor -- Slice {array_len, kind}: FixedLen(n) or           *)
(* VarLen(prefix, suffix), with the static array length when known.        *)
(***************************************************************************)
FixedLen(n) == [k |-> "FixedLen", n |-> n, p |-> 0, s |-> 0]
VarLen(p, s) == [k |-> "VarLen", n |-> 0, p |-> p, s |-> s]

slice_new(array_len, kind) == [array_len |-> array_len, kind |-> kind]

slice_kind_arity(kind) == IF kind.k = "FixedLen" THEN kind.n ELSE kind.p + kind.s
slice_arity(slice) == slice_kind_arity(slice.kind)

(***************************************************************************)
(* crate::constructor -- Constructor.                                      *)
(***************************************************************************)
Wildcard == [tag |-> "Wildcard"]
Single == [tag |-> "Single"]
Variant(idx) == [tag |-> "Variant", idx |-> idx]
Bool(b) == [tag |-> "Bool", b |-> b]
IntRange(r) == [tag |-> "IntRange", range |-> r]
F32Range(lo, hi, end) == [tag |-> "F32Range", flo |-> lo, fhi |-> hi, end |-> end]
F64Range(lo, hi, end) == [tag |-> "F64Range", flo |-> lo, fhi |-> hi, end |-> end]
Str(value) == [tag |-> "Str", value |-> value]
Slice(slice) == [tag |-> "Slice", slice |-> slice]
Opaque(id) == [tag |-> "Opaque", id |-> id]
Or == [tag |-> "Or"]
Missing == [tag |-> "Missing"]
NonExhaustive == [tag |-> "NonExhaustive"]
Hidden == [tag |-> "Hidden"]
CtorBug == [tag |-> "bug!"]

ZeroFieldTags ==
    {"Bool", "IntRange", "F32Range", "F64Range", "Str", "Opaque",
     "NonExhaustive", "Hidden", "Missing", "Wildcard"}

(***************************************************************************)
(* crate::pat -- DeconstructedPat and WitnessPat: (ctor, fields, ty).      *)
(***************************************************************************)
DeconstructedPat(ctor, fields, ty) == [ctor |-> ctor, fields |-> fields, ty |-> ty]
WitnessPat(ctor, fields, ty) == [ctor |-> ctor, fields |-> fields, ty |-> ty]
wildcard(ty) == DeconstructedPat(Wildcard, <<>>, ty)
PatBug == [ctor |-> CtorBug, fields |-> <<>>, ty |-> InferTy]

(***************************************************************************)
(* cx.rs -- MatchCheckCtxt.                                                *)
(***************************************************************************)
ArityBug == -1
FieldsBug == <<PatBug>>
FIRST_VARIANT == 0

alloc_wildcard_slice(tys) == Force([i \in 1..Len(tys) |-> wildcard(tys[i])])

\* The fields numbered after the filter instead of before it: a kept field
\* gets its position among the kept ones as its FieldIdx.
list_variant_nonhidden_fields_renumbered(ty, variant) ==
    LET is_non_exhaustive == variant.field_list_non_exhaustive /\ ~ty.is_local
        keep(f) ==
            LET is_visible == ty.is_enum \/ f.vis
                is_uninh == cx.exhaustive_patterns /\ is_uninhabited(f.ty)
            IN  ~(is_uninh /\ (~is_visible \/ is_non_exhaustive))
        kept == SelectSeq(variant.fields, keep)
    IN  [i \in 1..Len(kept) |-> [field |-> i - 1, ty |-> kept[i].ty]]

\* The feature gate left out: uninhabited fields are hidden whether or not
\* exhaustive_patterns is enabled.
list_variant_nonhidden_fields_ungated(ty, variant) ==
    LET is_non_exhaustive == variant.field_list_non_exhaustive /\ ~ty.is_local
        all == [i \in 1..Len(variant.fields) |->
                   [field |-> i - 1, ty |-> variant.fields[i].ty,
                    vis |-> variant.fields[i].vis]]
        keep(f) == ~(is_uninhabited(f.ty) /\ (~(ty.is_enum \/ f.vis) \/ is_non_exhaustive))
        kept == SelectSeq(all, keep)
    IN  [i \in 1..Len(kept) |-> [field |-> kept[i].field, ty |-> kept[i].ty]]

\* The fields kept, as (FieldIdx, type) pairs in declaration order.
\* FieldIdx counts from 0.
list_variant_nonhidden_fields(ty, variant) ==
    LET is_non_exhaustive == variant.field_list_non_exhaustive /\ ~ty.is_local
        all == [i \in 1..Len(variant.fields) |->
                   [field |-> i - 1, ty |-> variant.fields[i].ty,
                    vis |-> variant.fields[i].vis]]
        keep(f) ==
            LET is_visible == ty.is_enum \/ f.vis
                is_uninh == cx.exhaustive_patterns /\ is_uninhabited(f.ty)
            IN  ~(is_uninh /\ (~is_visible \/ is_non_exhaustive))
        kept == SelectSeq(all, keep)
    IN  [i \in 1..Len(kept) |-> [field |-> kept[i].field, ty |-> kept[i].ty]]

variant_index_for_adt(ctor, adt) ==
    CASE ctor.tag = "Variant" -> ctor.idx
      [] ctor.tag = "Single" -> IF adt.is_enum THEN ArityBug ELSE FIRST_VARIANT
      [] OTHER -> ArityBug

\* adt.variant(idx), None when the index is the failure of variant_index_for_adt
\* or names no variant.
adt_variant(adt, idx) ==
    IF idx >= 0 /\ idx < Len(adt.variants) THEN Some(adt.variants[idx + 1]) ELSE None

ctor_wildcard_fields(ctor, ty) ==
    CASE ctor.tag \in {"Single", "Variant"} ->
            ( CASE ty.kind = "Tuple" -> alloc_wildcard_slice(ty.fs)
                [] ty.kind = "Ref" -> alloc_wildcard_slice(<<ty.rty>>)
                [] ty.kind = "Adt" ->
                      IF ty.is_box THEN alloc_wildcard_slice(<<ty.arg0>>)
                      ELSE LET variant == adt_variant(ty, variant_index_for_adt(ctor, ty))
                           IN  IF ~is_some(variant) THEN FieldsBug
                               ELSE LET fs == list_variant_nonhidden_fields(ty, unwrap(variant))
                                    IN  alloc_wildcard_slice([i \in 1..Len(fs) |-> fs[i].ty])
                [] OTHER -> FieldsBug )
      [] ctor.tag = "Slice" ->
            IF ty.kind \in {"Slice", "Array"}
            THEN alloc_wildcard_slice([i \in 1..slice_arity(ctor.slice) |-> ty.elem])
            ELSE FieldsBug
      [] ctor.tag \in ZeroFieldTags -> <<>>
      [] OTHER -> FieldsBug

\* The Slice arm left out: a slice constructor falls through to the bug!().
ctor_arity_no_slice(ctor, ty) ==
    CASE ctor.tag \in {"Single", "Variant"} ->
            ( CASE ty.kind = "Tuple" -> Len(ty.fs)
                [] ty.kind = "Ref" -> 1
                [] ty.kind = "Adt" ->
                      IF ty.is_box THEN 1
                      ELSE LET variant == adt_variant(ty, variant_index_for_adt(ctor, ty))
                           IN  IF ~is_some(variant) THEN ArityBug
                               ELSE Len(list_variant_nonhidden_fields(ty, unwrap(variant)))
                [] OTHER -> ArityBug )
      [] ctor.tag \in ZeroFieldTags -> 0
      [] OTHER -> ArityBug

\* The declared fields counted, the hidden ones included.
ctor_arity_declared(ctor, ty) ==
    CASE ctor.tag \in {"Single", "Variant"} ->
            ( CASE ty.kind = "Tuple" -> Len(ty.fs)
                [] ty.kind = "Ref" -> 1
                [] ty.kind = "Adt" ->
                      IF ty.is_box THEN 1
                      ELSE LET variant == adt_variant(ty, variant_index_for_adt(ctor, ty))
                           IN  IF ~is_some(variant) THEN ArityBug
                               ELSE Len(unwrap(variant).fields)
                [] OTHER -> ArityBug )
      [] ctor.tag = "Slice" -> slice_arity(ctor.slice)
      [] ctor.tag \in ZeroFieldTags -> 0
      [] OTHER -> ArityBug

ctor_arity(ctor, ty) ==
    CASE ctor.tag \in {"Single", "Variant"} ->
            ( CASE ty.kind = "Tuple" -> Len(ty.fs)
                [] ty.kind = "Ref" -> 1
                [] ty.kind = "Adt" ->
                      IF ty.is_box THEN 1
                      ELSE LET variant == adt_variant(ty, variant_index_for_adt(ctor, ty))
                           IN  IF ~is_some(variant) THEN ArityBug
                               ELSE Len(list_variant_nonhidden_fields(ty, unwrap(variant)))
                [] OTHER -> ArityBug )
      [] ctor.tag = "Slice" -> slice_arity(ctor.slice)
      [] ctor.tag \in ZeroFieldTags -> 0
      [] OTHER -> ArityBug

(***************************************************************************)
(* ConstructorSet and ctors_for_ty.                                        *)
(***************************************************************************)
CsBool == [set |-> "Bool"]
CsIntegers(r1, r2) == [set |-> "Integers", range_1 |-> r1, range_2 |-> r2]
CsSlice(len, empty) == [set |-> "Slice", array_len |-> len, subtype_is_empty |-> empty]
CsVariants(vs, nonexh) == [set |-> "Variants", variants |-> vs, non_exhaustive |-> nonexh]
CsSingle(empty) == [set |-> "Single", empty |-> empty]
CsNoConstructors == [set |-> "NoConstructors"]
CsUnlistable == [set |-> "Unlistable"]
CsBug == [set |-> "bug!"]

SURROGATE_LO == 55295      \* '\u{D7FF}'
SURROGATE_HI == 57344      \* '\u{E000}'
CHAR_MAX == 1114111        \* '\u{10FFFF}'

\* RangeEnd::Excluded for RangeEnd::Included: the type's last value is lost.
make_range_excluded(ty, start, end) ==
    from_range(new_finite(ty, start), new_finite(ty, end), "Excluded")

make_range(ty, start, end) ==
    from_range(new_finite(ty, start), new_finite(ty, end), "Included")

\* The stability and doc(hidden) tests taken before the inhabitedness test.
variant_visibility_hidden_first(ty, v) ==
    IF v.unstable \/ (v.doc_hidden /\ ~ty.is_local) THEN "Hidden"
    ELSE IF ~variant_is_inhabited(ty, v) THEN "Empty"
    ELSE "Visible"

variant_visibility(ty, v) ==
    LET is_inhabited == variant_is_inhabited(ty, v)
        is_unstable == v.unstable
        is_doc_hidden == v.doc_hidden /\ ~ty.is_local
    IN  IF ~is_inhabited THEN "Empty"
        ELSE IF is_unstable \/ is_doc_hidden THEN "Hidden"
        ELSE "Visible"

ctors_for_ty(ty) ==
    CASE ty.kind = "Bool" -> CsBool
      [] ty.kind = "Char" ->
            CsIntegers(make_range(ty, 0, SURROGATE_LO),
                       Some(make_range(ty, SURROGATE_HI, CHAR_MAX)))
      [] ty.kind = "Int" ->
            LET range == IF is_ptr_sized_integral(ty)
                         THEN [lo |-> NegInfinity, hi |-> PosInfinity]
                         ELSE LET min == Pow2(ty.bits - 1)
                                  max == min - 1
                              IN  make_range(ty, min, max)
            IN  CsIntegers(range, None)
      [] ty.kind = "Uint" ->
            LET range == IF is_ptr_sized_integral(ty)
                         THEN [lo |-> new_finite(ty, 0), hi |-> PosInfinity]
                         ELSE make_range(ty, 0, Pow2(ty.bits) - 1)
            IN  CsIntegers(range, None)
      [] ty.kind = "Slice" -> CsSlice(None, is_uninhabited(ty.elem))
      [] ty.kind = "Array" -> CsSlice(ty.len, is_uninhabited(ty.elem))
      [] ty.kind = "Adt" /\ ty.is_enum ->
            LET is_declared_nonexhaustive == is_foreign_non_exhaustive_enum(ty)
            IN  IF Len(ty.variants) = 0 /\ ~is_declared_nonexhaustive
                THEN CsNoConstructors
                ELSE CsVariants([i \in 1..Len(ty.variants) |->
                                    variant_visibility(ty, ty.variants[i])],
                                is_declared_nonexhaustive)
      [] ty.kind \in {"Adt", "Tuple", "Ref"} -> CsSingle(is_uninhabited(ty))
      [] ty.kind = "Never" -> CsNoConstructors
      [] ty.kind \in {"Float", "Str", "Foreign", "RawPtr", "FnDef", "FnPtr", "Dynamic",
                      "Closure", "Coroutine", "Alias", "Param", "Error"} -> CsUnlistable
      [] OTHER -> CsBug

(***************************************************************************)
(* The typed surface patterns (rustc_middle::thir::Pat) that cx.rs reads   *)
(* and writes.  A constant carries its bits when the constant evaluator    *)
(* can produce them.  FieldPat.field counts from 0.                        *)
(***************************************************************************)
Const(bits) == [eval |-> TRUE, bits |-> bits]
Unevaluable == [eval |-> FALSE, bits |-> 0]

BdyNegInfinity == [b |-> "NegInfinity", value |-> Unevaluable]
BdyFinite(value) == [b |-> "Finite", value |-> value]
BdyPosInfinity == [b |-> "PosInfinity", value |-> Unevaluable]

PWild(ty) == [kind |-> "Wild", ty |-> ty]
PBinding(ty, sub) == [kind |-> "Binding", ty |-> ty, subpattern |-> sub]
PAscribe(ty, sub) == [kind |-> "AscribeUserType", ty |-> ty, subpattern |-> sub]
PInlineConstant(ty, sub) == [kind |-> "InlineConstant", ty |-> ty, subpattern |-> sub]
PDeref(ty, sub) == [kind |-> "Deref", ty |-> ty, subpattern |-> sub]
FieldPat(field, pattern) == [field |-> field, pattern |-> pattern]
PLeaf(ty, subs) == [kind |-> "Leaf", ty |-> ty, subpatterns |-> subs]
PVariant(ty, idx, subs) ==
    [kind |-> "Variant", ty |-> ty, variant_index |-> idx, subpatterns |-> subs]
PConstant(ty, value) == [kind |-> "Constant", ty |-> ty, value |-> value]
PRange(ty, lo, hi, end) == [kind |-> "Range", ty |-> ty, lo |-> lo, hi |-> hi, end |-> end]
PSlice(ty, prefix, slice, suffix) ==
    [kind |-> "Slice", ty |-> ty, prefix |-> prefix, slice |-> slice, suffix |-> suffix]
PArray(ty, prefix, slice, suffix) ==
    [kind |-> "Array", ty |-> ty, prefix |-> prefix, slice |-> slice, suffix |-> suffix]
POr(ty, pats) == [kind |-> "Or", ty |-> ty, pats |-> pats]
PNever(ty) == [kind |-> "Never", ty |-> ty]
PError(ty) == [kind |-> "Error", ty |-> ty]
PBug == [kind |-> "bug!", ty |-> InferTy]

\* Nested alternatives left where they are.
expand_or_pat_shallow(pat) == pat.pats

RECURSIVE expand_or_pat(_)
\* The alternatives of an or-pattern, nested or-patterns expanded in place.
expand_or_pat(pat) ==
    IF pat.kind = "Or"
    THEN Concat([i \in 1..Len(pat.pats) |-> expand_or_pat(pat.pats[i])])
    ELSE <<pat>>

\* The bits taken as they are, without the bias that orders signed values.
lower_pat_range_bdy_unbiased(bdy, ty) ==
    CASE bdy.b = "NegInfinity" -> NegInfinity
      [] bdy.b = "Finite" -> Finite(bdy.value.bits)
      [] bdy.b = "PosInfinity" -> PosInfinity

lower_pat_range_bdy(bdy, ty) ==
    CASE bdy.b = "NegInfinity" -> NegInfinity
      [] bdy.b = "Finite" -> new_finite(ty, bdy.value.bits)
      [] bdy.b = "PosInfinity" -> PosInfinity

\* Float endpoints: the bits of a finite bound, or an infinity.
FloatBits(bits) == [inf |-> 0, bits |-> bits]
FloatNegInf == [inf |-> -1, bits |-> 0]
FloatPosInf == [inf |-> 1, bits |-> 0]

Lowered(pat, next) == [pat |-> pat, next |-> next]

\* The rest marker overlooked: every slice pattern taken as fixed-length.
lower_slice_kind_fixed(prefix, slice, suffix) == FixedLen(Len(prefix) + Len(suffix))

\* The SliceKind of a slice or array pattern: variable-length when it has a
\* rest marker.
lower_slice_kind(prefix, slice, suffix) ==
    IF is_some(slice) THEN VarLen(Len(prefix), Len(suffix))
    ELSE FixedLen(Len(prefix) + Len(suffix))

\* One id handed to every opaque node.
lower_opaque_reused(ty, id) == Lowered(DeconstructedPat(Opaque(0), <<>>, ty), id + 1)

\* A counter that stops handing out new ids once it has reached 2.
lower_opaque_saturating(ty, id) ==
    Lowered(DeconstructedPat(Opaque(IF id < 2 THEN id ELSE 2), <<>>, ty), id + 1)

\* Opaque(OpaqueId::new()): the node takes the counter's value, and the
\* counter moves on.
lower_opaque(ty, id) == Lowered(DeconstructedPat(Opaque(id), <<>>, ty), id + 1)

\* The declared index taken for the slot, as long as there is such a slot.
field_id_to_id_declared(kept, f) == IF f < Len(kept) THEN f + 1 ELSE 0

\* field_id_to_id: the slot (from 1) of declared field f among the kept
\* fields, 0 when the field is hidden.
field_id_to_id(kept, f) ==
    LET is == {i \in 1..Len(kept) : kept[i].field = f}
    IN  IF is = {} THEN 0 ELSE CHOOSE i \in is : TRUE

RECURSIVE lower_pat_from(_, _)
RECURSIVE lower_pats_from(_, _)

\* Lowers the patterns of a list from left to right; the OpaqueId counter
\* runs through them.
lower_pats_from(pats, id) ==
    IF pats = <<>> THEN [pats |-> <<>>, next |-> id]
    ELSE Bind(lower_pat_from(Head(pats), id), LAMBDA h :
           Bind(lower_pats_from(Tail(pats), h.next), LAMBDA t :
             [pats |-> <<h.pat>> \o t.pats, next |-> t.next]))

\* lower_pat, with the OpaqueId counter made explicit: OpaqueId::new()
\* returns `id` and leaves id + 1.
lower_pat_from(pat, id) ==
    LET opaque == lower_opaque(pat.ty, id)
        leaf(ctor) == Lowered(DeconstructedPat(ctor, <<>>, pat.ty), id)
        \* wilds, overwritten by the listed subpatterns that have a slot
        place(tys, subs, slot(_)) ==
            LET used == SelectSeq(subs, LAMBDA sp : slot(sp.field) # 0)
                last(i) == LET js == {j \in 1..Len(used) : slot(used[j].field) = i}
                           IN  IF js = {} THEN 0 ELSE CHOOSE j \in js : \A k \in js : k <= j
            IN  Bind(lower_pats_from([j \in 1..Len(used) |-> used[j].pattern], id),
                     LAMBDA low :
                       [fields |-> Force([i \in 1..Len(tys) |->
                                            IF last(i) = 0 THEN wildcard(tys[i])
                                            ELSE low.pats[last(i)]]),
                        next |-> low.next])
    IN  CASE pat.kind \in {"AscribeUserType", "InlineConstant"} ->
                lower_pat_from(pat.subpattern, id)
          [] pat.kind = "Binding" ->
                IF is_some(pat.subpattern) THEN lower_pat_from(unwrap(pat.subpattern), id)
                ELSE leaf(Wildcard)
          [] pat.kind = "Wild" -> leaf(Wildcard)
          [] pat.kind = "Deref" ->
                Bind(lower_pat_from(pat.subpattern, id), LAMBDA sub :
                  Lowered(DeconstructedPat(Single, <<sub.pat>>, pat.ty), sub.next))
          [] pat.kind \in {"Leaf", "Variant"} ->
                ( CASE pat.ty.kind = "Tuple" ->
                        Bind(place(pat.ty.fs, pat.subpatterns, LAMBDA f : f + 1), LAMBDA r :
                          Lowered(DeconstructedPat(Single, r.fields, pat.ty), r.next))
                    [] pat.ty.kind = "Adt" /\ pat.ty.is_box ->
                        LET found == SelectSeq(pat.subpatterns, LAMBDA sp : sp.field = 0)
                        IN  IF found # <<>>
                            THEN Bind(lower_pat_from(found[1].pattern, id), LAMBDA sub :
                                   Lowered(DeconstructedPat(Single, <<sub.pat>>, pat.ty),
                                           sub.next))
                            ELSE Lowered(DeconstructedPat(Single, <<wildcard(pat.ty.arg0)>>,
                                                          pat.ty), id)
                    [] pat.ty.kind = "Adt" ->
                        LET ctor == IF pat.kind = "Leaf" THEN Single
                                    ELSE Variant(pat.variant_index)
                            variant == adt_variant(pat.ty, variant_index_for_adt(ctor, pat.ty))
                        IN  IF ~is_some(variant) THEN Lowered(PatBug, id)
                            ELSE LET kept == list_variant_nonhidden_fields(pat.ty,
                                                                           unwrap(variant))
                                 IN  Bind(place([i \in 1..Len(kept) |-> kept[i].ty],
                                                pat.subpatterns,
                                                LAMBDA f : field_id_to_id(kept, f)),
                                          LAMBDA r : Lowered(DeconstructedPat(ctor, r.fields,
                                                                              pat.ty), r.next))
                    [] OTHER -> Lowered(PatBug, id) )
          [] pat.kind = "Constant" ->
                ( CASE pat.ty.kind = "Bool" ->
                        IF pat.value.eval THEN leaf(Bool(pat.value.bits = 1)) ELSE opaque
                    [] pat.ty.kind \in {"Char", "Int", "Uint"} ->
                        IF pat.value.eval
                        THEN leaf(IntRange(from_bits(pat.ty, pat.value.bits)))
                        ELSE opaque
                    [] pat.ty.kind = "Float" /\ pat.ty.bits = 32 ->
                        IF pat.value.eval
                        THEN leaf(F32Range(FloatBits(pat.value.bits),
                                           FloatBits(pat.value.bits), "Included"))
                        ELSE opaque
                    [] pat.ty.kind = "Float" /\ pat.ty.bits = 64 ->
                        IF pat.value.eval
                        THEN leaf(F64Range(FloatBits(pat.value.bits),
                                           FloatBits(pat.value.bits), "Included"))
                        ELSE opaque
                    [] pat.ty.kind = "Ref" /\ pat.ty.rty.kind = "Str" ->
                        LET subpattern == DeconstructedPat(Str(pat.value), <<>>, pat.ty.rty)
                        IN  Lowered(DeconstructedPat(Single, <<subpattern>>, pat.ty), id)
                    [] OTHER -> opaque )
          [] pat.kind = "Range" ->
                ( CASE pat.ty.kind \in {"Char", "Int", "Uint"} ->
                        LET lo == lower_pat_range_bdy(pat.lo, pat.ty)
                            hi == lower_pat_range_bdy(pat.hi, pat.ty)
                            r == from_range(lo, hi, pat.end)
                        IN  IF r = IntRangeBug THEN Lowered(PatBug, id) ELSE leaf(IntRange(r))
                    [] pat.ty.kind = "Float" ->
                        LET lo == IF pat.lo.b = "Finite" THEN FloatBits(pat.lo.value.bits)
                                  ELSE FloatNegInf
                            hi == IF pat.hi.b = "Finite" THEN FloatBits(pat.hi.value.bits)
                                  ELSE FloatPosInf
                        IN  IF pat.ty.bits = 32 THEN leaf(F32Range(lo, hi, pat.end))
                            ELSE leaf(F64Range(lo, hi, pat.end))
                    [] OTHER -> Lowered(PatBug, id) )
          [] pat.kind \in {"Array", "Slice"} ->
                IF ~(pat.ty.kind = "Slice" \/ (pat.ty.kind = "Array" /\ is_some(pat.ty.len)))
                THEN Lowered(PatBug, id)
                ELSE LET array_len == IF pat.ty.kind = "Array" THEN pat.ty.len ELSE None
                         kind == lower_slice_kind(pat.prefix, pat.slice, pat.suffix)
                     IN  Bind(lower_pats_from(pat.prefix \o pat.suffix, id), LAMBDA low :
                           Lowered(DeconstructedPat(Slice(slice_new(array_len, kind)),
                                                    low.pats, pat.ty), low.next))
          [] pat.kind = "Or" ->
                Bind(lower_pats_from(expand_or_pat(pat), id), LAMBDA low :
                  Lowered(DeconstructedPat(Or, low.pats, pat.ty), low.next))
          [] pat.kind = "Never" -> leaf(Wildcard)
          [] pat.kind = "Error" -> opaque
          [] OTHER -> Lowered(PatBug, id)

RECURSIVE pat_has_bug(_)
\* A bug!() anywhere below aborts the whole lowering.
pat_has_bug(dp) ==
    \/ dp.ctor = CtorBug
    \/ \E i \in 1..Len(dp.fields) : pat_has_bug(dp.fields[i])

lower_pat(pat, id) ==
    Bind(lower_pat_from(pat, id), LAMBDA r :
      IF pat_has_bug(r.pat) THEN Lowered(PatBug, r.next) ELSE r)

(***************************************************************************)
(* cx.rs -- hoisting witnesses back to surface patterns.                   *)
(***************************************************************************)
\* ty.primitive_size, in bits.  Char takes four bytes.
primitive_size(ty) == IF ty.kind = "Char" THEN 32 ELSE ty.bits

\* Scalar::try_from_uint(bits, size).is_some().  Every number of the model
\* is below 2^31.
fits_in(bits, size) == size >= 31 \/ bits < Pow2(size)

\* ty.numeric_max_val, as bits.
numeric_max_val(ty) ==
    CASE ty.kind = "Char" -> CHAR_MAX
      [] ty.kind = "Int" -> Pow2(ty.bits - 1) - 1
      [] ty.kind = "Uint" -> Pow2(ty.bits) - 1

\* The sign bias removed from every type's bounds, unsigned ones included.
hoist_pat_range_bdy_signed(miint, ty) ==
    CASE miint.k = 0 -> BdyNegInfinity
      [] miint.k = 1 ->
            LET bias == Pow2(primitive_size(ty) - 1)
                bits == xor_bias(miint.v, bias)
            IN  IF fits_in(bits, primitive_size(ty)) THEN BdyFinite(Const(bits))
                ELSE BdyPosInfinity
      [] OTHER -> BdyPosInfinity

hoist_pat_range_bdy(miint, ty) ==
    CASE miint.k = 0 -> BdyNegInfinity
      [] miint.k = 1 ->
            LET bias == signed_bias(ty)
                bits == xor_bias(miint.v, bias)
            IN  IF fits_in(bits, primitive_size(ty)) THEN BdyFinite(Const(bits))
                ELSE BdyPosInfinity
      [] OTHER -> BdyPosInfinity

\* The test for the range below MIN left out.
is_range_beyond_boundaries_above_only(range, ty) ==
    is_ptr_sized_integral(ty) /\ hoist_pat_range_bdy(range.lo, ty).b = "PosInfinity"

is_range_beyond_boundaries(range, ty) ==
    is_ptr_sized_integral(ty)
    /\ LET lo == hoist_pat_range_bdy(range.lo, ty)
       IN  lo.b = "PosInfinity" \/ range.hi = Finite(0)

\* The exclusive upper end printed as if it were the last value.
hoist_pat_range_no_minus_one(range, ty) ==
    IF range.lo = NegInfinity /\ range.hi = PosInfinity THEN PWild(ty)
    ELSE IF is_singleton(range)
    THEN LET lo == hoist_pat_range_bdy(range.lo, ty)
         IN  IF lo.b = "Finite" THEN PConstant(ty, lo.value) ELSE PBug
    ELSE LET lo0 == hoist_pat_range_bdy(range.lo, ty)
             lo == IF lo0.b = "PosInfinity" THEN BdyFinite(Const(numeric_max_val(ty)))
                   ELSE lo0
             end == IF range.hi = Finite(0) THEN "Excluded" ELSE "Included"
         IN  PRange(ty, lo, hoist_pat_range_bdy(range.hi, ty), end)

hoist_pat_range(range, ty) ==
    IF range.lo = NegInfinity /\ range.hi = PosInfinity THEN PWild(ty)
    ELSE IF is_singleton(range)
    THEN LET lo == hoist_pat_range_bdy(range.lo, ty)
         IN  IF lo.b = "Finite" THEN PConstant(ty, lo.value) ELSE PBug
    ELSE LET lo0 == hoist_pat_range_bdy(range.lo, ty)
             lo == IF lo0.b = "PosInfinity" THEN BdyFinite(Const(numeric_max_val(ty)))
                   ELSE lo0
             end == IF range.hi = Finite(0) THEN "Excluded" ELSE "Included"
             hi0 == IF range.hi = Finite(0) THEN range.hi ELSE minus_one(range.hi)
         IN  IF hi0 = MiiBug THEN PBug
             ELSE PRange(ty, lo, hoist_pat_range_bdy(hi0, ty), end)

is_wildcard(pat) == pat.kind = "Wild"

\* The loop left out: the wildcards before the rest marker are kept.
keep_trailing_wild(ps) == ps

\* prefix.pop() while the last pattern is a wildcard.
RECURSIVE drop_trailing_wild(_)
drop_trailing_wild(ps) ==
    IF ps # <<>> /\ is_wildcard(ps[Len(ps)])
    THEN drop_trailing_wild(SubSeq(ps, 1, Len(ps) - 1))
    ELSE ps

\* subpatterns.next() while the next pattern is a wildcard.
RECURSIVE drop_leading_wild(_)
drop_leading_wild(ps) ==
    IF ps # <<>> /\ is_wildcard(ps[1]) THEN drop_leading_wild(Tail(ps)) ELSE ps

\* Missing taken for one more constructor that prints as `_`.
hoists_to_wild_with_missing == {"Wildcard", "NonExhaustive", "Hidden", "Missing"}

\* The arm `Wildcard | NonExhaustive | Hidden => PatKind::Wild`.
hoists_to_wild == {"Wildcard", "NonExhaustive", "Hidden"}

RECURSIVE hoist_witness_pat(_)
hoist_witness_pat(pat) ==
  Bind(Force([i \in 1..Len(pat.fields) |-> hoist_witness_pat(pat.fields[i])]),
       LAMBDA subpatterns :
    LET failed == \E i \in 1..Len(subpatterns) : subpatterns[i] = PBug
        ctor == pat.ctor
        ty == pat.ty
        res ==
          CASE ctor.tag = "Bool" -> PConstant(ty, Const(IF ctor.b THEN 1 ELSE 0))
            [] ctor.tag = "IntRange" -> hoist_pat_range(ctor.range, ty)
            [] ctor.tag \in {"Single", "Variant"} ->
                ( CASE ty.kind = "Tuple" ->
                        PLeaf(ty, [i \in 1..Len(subpatterns) |->
                                      FieldPat(i - 1, subpatterns[i])])
                    [] ty.kind = "Adt" /\ ty.is_box ->
                        IF subpatterns = <<>> THEN PBug ELSE PDeref(ty, subpatterns[1])
                    [] ty.kind = "Adt" ->
                        LET variant_index == variant_index_for_adt(ctor, ty)
                            variant == adt_variant(ty, variant_index)
                        IN  IF ~is_some(variant) THEN PBug
                            ELSE LET kept == list_variant_nonhidden_fields(ty, unwrap(variant))
                                     n == IF Len(kept) < Len(subpatterns) THEN Len(kept)
                                          ELSE Len(subpatterns)
                                     fps == [i \in 1..n |->
                                                FieldPat(kept[i].field, subpatterns[i])]
                                 IN  IF ty.is_enum THEN PVariant(ty, variant_index, fps)
                                     ELSE PLeaf(ty, fps)
                    [] ty.kind = "Ref" ->
                        IF subpatterns = <<>> THEN PBug ELSE PDeref(ty, subpatterns[1])
                    [] OTHER -> PBug )
            [] ctor.tag = "Slice" ->
                IF ctor.slice.kind.k = "FixedLen"
                THEN PSlice(ty, subpatterns, None, <<>>)
                ELSE LET np == IF ctor.slice.kind.p < Len(subpatterns)
                               THEN ctor.slice.kind.p ELSE Len(subpatterns)
                         prefix0 == SubSeq(subpatterns, 1, np)
                         rest0 == SubSeq(subpatterns, np + 1, Len(subpatterns))
                         known == is_some(ctor.slice.array_len)
                         prefix == IF known THEN drop_trailing_wild(prefix0) ELSE prefix0
                         suffix == IF known THEN drop_leading_wild(rest0) ELSE rest0
                     IN  PSlice(ty, prefix, Some(PWild(ty)), suffix)
            [] ctor.tag = "Str" -> PConstant(ty, ctor.value)
            [] ctor.tag \in hoists_to_wild -> PWild(ty)
            [] OTHER -> PBug
    IN  IF failed THEN PBug ELSE res)

(***************************************************************************)
(* crate::constructor -- coverage between constructors and the split of a  *)
(* type's constructor set against the constructors of a column.            *)
(***************************************************************************)
is_subrange(a, b) == mii_le(b.lo, a.lo) /\ mii_le(a.hi, b.hi)

covers_length(kind, len) ==
    IF kind.k = "FixedLen" THEN len = kind.n ELSE kind.p + kind.s <= len

slice_is_covered_by(a, b) == covers_length(b.kind, slice_arity(a))

\* Whether every value of constructor `c` is matched by a pattern whose head
\* is `other`.  Opaque constants are compared by identity only.
is_covered_by(c, other) ==
    CASE other.tag = "Wildcard" -> TRUE
      [] c.tag \in {"Missing", "NonExhaustive", "Hidden"} -> FALSE
      [] c.tag = "Single" /\ other.tag = "Single" -> TRUE
      [] c.tag = "Variant" /\ other.tag = "Variant" -> c.idx = other.idx
      [] c.tag = "Bool" /\ other.tag = "Bool" -> c.b = other.b
      [] c.tag = "IntRange" /\ other.tag = "IntRange" -> is_subrange(c.range, other.range)
      [] c.tag = "Str" /\ other.tag = "Str" -> c.value = other.value
      [] c.tag = "Slice" /\ other.tag = "Slice" -> slice_is_covered_by(c.slice, other.slice)
      [] c.tag = "Opaque" /\ other.tag = "Opaque" -> c.id = other.id
      [] OTHER -> FALSE

RECURSIVE sort_mii(_)
\* The boundaries of a set, in increasing order.
sort_mii(S) ==
    IF S = {} THEN <<>>
    ELSE Bind(CHOOSE x \in S : \A y \in S : mii_le(x, y),
              LAMBDA m : <<m>> \o sort_mii(S \ {m}))

\* IntRange::split: the maximal sub-ranges of `self` bounded by every boundary
\* of the column's ranges, each marked seen when some column range contains it.
int_range_split(self, column_ranges) ==
    Bind({[lo |-> mii_max(self.lo, r.lo), hi |-> mii_min(self.hi, r.hi)] :
             r \in {c \in Range(column_ranges) :
                       mii_lt(c.lo, self.hi) /\ mii_lt(self.lo, c.hi)}},
         LAMBDA inter :
      Bind(sort_mii({self.lo, self.hi} \cup {r.lo : r \in inter} \cup {r.hi : r \in inter}),
           LAMBDA bdys :
        Force([i \in 1..(Len(bdys) - 1) |->
                  [seen |-> \E r \in inter :
                               is_subrange([lo |-> bdys[i], hi |-> bdys[i + 1]], r),
                   range |-> [lo |-> bdys[i], hi |-> bdys[i + 1]]]])))

max_of(a, b) == IF a < b THEN b ELSE a

\* Slice::split: every length below the largest length the column tells
\* apart is a case of its own; all larger lengths are one variable-length case.
slice_split(self, column_slices) ==
    Bind([fixed |-> {sl.kind.n : sl \in {c \in Range(column_slices) : c.kind.k = "FixedLen"}},
          var |-> {sl.kind : sl \in {c \in Range(column_slices) : c.kind.k = "VarLen"}}],
         LAMBDA col :
    LET fixed == col.fixed
        var == col.var
        seen(arity) == (\E k \in var : k.p + k.s <= arity) \/ arity \in fixed
        mark(kind) == [seen |-> seen(slice_kind_arity(kind)),
                       slice |-> slice_new(self.array_len, kind)]
    IN  IF self.kind.k = "FixedLen" THEN <<mark(self.kind)>>
        ELSE Bind(IF fixed = {} THEN 1
                  ELSE max_of(1, 1 + (CHOOSE n \in fixed : \A m \in fixed : m <= n)),
                  LAMBDA fixed_len_upper_bound :
             Bind(LET ss == {self.kind.s} \cup {k.s : k \in var}
                  IN  CHOOSE n \in ss : \A m \in ss : m <= n,
                  LAMBDA max_suffix_len :
             Bind(LET ps == {self.kind.p} \cup {k.p : k \in var}
                  IN  CHOOSE n \in ps : \A m \in ps : m <= n,
                  LAMBDA max_prefix_len0 :
             Bind(IF max_prefix_len0 + max_suffix_len < fixed_len_upper_bound
                  THEN fixed_len_upper_bound - max_suffix_len
                  ELSE max_prefix_len0,
                  LAMBDA max_prefix_len :
             Bind(IF is_some(self.array_len)
                     /\ max_prefix_len + max_suffix_len >= unwrap(self.array_len)
                  THEN FixedLen(unwrap(self.array_len))
                  ELSE VarLen(max_prefix_len, max_suffix_len),
                  LAMBDA max_slice :
               (IF is_some(self.array_len) THEN <<>>
                ELSE [i \in 1..(slice_kind_arity(max_slice) - slice_arity(self)) |->
                         mark(FixedLen(slice_arity(self) + i - 1))])
                 \o <<mark(max_slice)>>))))))

SplitSet(present, missing, missing_empty) ==
    [present |-> present, missing |-> missing, missing_empty |-> missing_empty]

\* ConstructorSet::split.  `ctors` are the head constructors of the column.
split(cset, ctors, is_top_level) ==
  Bind(
   Bind([opaques |-> SelectSeq(ctors, LAMBDA c : c.tag = "Opaque"),
         seen |-> SelectSeq(ctors, LAMBDA c : c.tag \notin {"Opaque", "Wildcard"})],
        LAMBDA col :
    LET opaques == col.opaques
        seen == col.seen
        marked(parts, wrap(_)) ==
            [present |-> SeqMap(wrap, SelectSeq(parts, LAMBDA m : m.seen)),
             missing |-> SeqMap(wrap, SelectSeq(parts, LAMBDA m : ~m.seen))]
        raw ==
          CASE cset.set = "Single" ->
                  IF seen # <<>> THEN SplitSet(<<Single>>, <<>>, <<>>)
                  ELSE IF cset.empty THEN SplitSet(<<>>, <<>>, <<Single>>)
                  ELSE SplitSet(<<>>, <<Single>>, <<>>)
            [] cset.set = "Variants" ->
                  Bind({seen[j].idx + 1 : j \in {k \in 1..Len(seen) :
                                                    seen[k].tag = "Variant"}},
                       LAMBDA seen_idxs :
                  LET n == Len(cset.variants)
                      is_seen(i) == i \in seen_idxs
                      idxs == Force([i \in 1..n |-> i])
                      pick(P(_)) == SeqMap(LAMBDA i : Variant(i - 1), SelectSeq(idxs, P))
                      skipped_a_hidden_variant ==
                          \E i \in 1..n : ~is_seen(i) /\ cset.variants[i] = "Hidden"
                  IN  SplitSet(
                        pick(is_seen),
                        pick(LAMBDA i : ~is_seen(i) /\ cset.variants[i] = "Visible")
                          \o (IF skipped_a_hidden_variant THEN <<Hidden>> ELSE <<>>)
                          \o (IF cset.non_exhaustive THEN <<NonExhaustive>> ELSE <<>>),
                        pick(LAMBDA i : ~is_seen(i) /\ cset.variants[i] = "Empty")))
            [] cset.set = "Bool" ->
                  LET has(b) == \E j \in 1..Len(seen) : seen[j] = Bool(b)
                      both == <<Bool(FALSE), Bool(TRUE)>>
                  IN  SplitSet(SelectSeq(both, LAMBDA c : has(c.b)),
                               SelectSeq(both, LAMBDA c : ~has(c.b)), <<>>)
            [] cset.set = "Integers" ->
                  LET seen_ranges == SeqMap(LAMBDA c : c.range,
                                            SelectSeq(seen, LAMBDA c : c.tag = "IntRange"))
                  IN  Bind(int_range_split(cset.range_1, seen_ranges)
                             \o (IF is_some(cset.range_2)
                                 THEN int_range_split(unwrap(cset.range_2), seen_ranges)
                                 ELSE <<>>),
                           LAMBDA parts :
                             Bind(marked(parts, LAMBDA x : IntRange(x.range)),
                                  LAMBDA m : SplitSet(m.present, m.missing, <<>>)))
            [] cset.set = "Slice" ->
                  LET seen_slices == SeqMap(LAMBDA c : c.slice,
                                            SelectSeq(seen, LAMBDA c : c.tag = "Slice"))
                      is_empty(c) == slice_arity(c.slice) > 0 /\ cset.subtype_is_empty
                  IN  Bind(slice_split(slice_new(cset.array_len, VarLen(0, 0)),
                                       seen_slices),
                           LAMBDA parts :
                             Bind(marked(parts, LAMBDA x : Slice(x.slice)),
                                  LAMBDA m :
                                    SplitSet(m.present,
                                             SelectSeq(m.missing, LAMBDA c : ~is_empty(c)),
                                             SelectSeq(m.missing, is_empty))))
            [] cset.set = "Unlistable" -> SplitSet(seen, <<NonExhaustive>>, <<>>)
            [] OTHER -> SplitSet(<<>>, <<>>, <<NonExhaustive>>)
    IN  [opaques |-> opaques, raw |-> raw]),
    LAMBDA s :
      \* Without exhaustive_patterns only a top-level `!` or empty enum counts
      \* as empty.
      LET keep_empty == cx.exhaustive_patterns
                        \/ (is_top_level /\ cset.set = "NoConstructors")
      IN  SplitSet(s.opaques \o s.raw.present,
                   IF keep_empty THEN s.raw.missing
                   ELSE s.raw.missing \o s.raw.missing_empty,
                   IF keep_empty THEN s.raw.missing_empty ELSE <<>>))

(***************************************************************************)
(* crate::usefulness -- the matrix algorithm.                              *)
(* A matrix is a sequence of rows [pats, parent]: pats are the cells of    *)
(* the row, parent the row of the enclosing matrix it was specialized      *)
(* from (at the top, the arm).  A witness is a sequence of WitnessPat, one *)
(* per column.                                                             *)
(***************************************************************************)
WITNESS_CAP == 3

Row(pats, parent) == [pats |-> pats, parent |-> parent]

\* One level only: an alternative that is an or-pattern stays as it is.
flatten_or_pat_shallow(p) == IF p.ctor.tag = "Or" THEN p.fields ELSE <<p>>

RECURSIVE flatten_or_pat(_)
flatten_or_pat(p) ==
    IF p.ctor.tag = "Or"
    THEN Concat([i \in 1..Len(p.fields) |-> flatten_or_pat(p.fields[i])])
    ELSE <<p>>

\* Matrix::expand_and_push: a row headed by an or-pattern enters the matrix
\* as one row per alternative.
expand_row(row) ==
    IF row.pats # <<>> /\ row.pats[1].ctor.tag = "Or"
    THEN LET alts == flatten_or_pat(row.pats[1])
         IN  [i \in 1..Len(alts) |-> Row(<<alts[i]>> \o Tail(row.pats), row.parent)]
    ELSE <<row>>

\* DeconstructedPat::specialize: the fields the pattern contributes when its
\* head is replaced by the fields of `other_ctor`.
pat_specialize(p, other_ctor, ty) ==
    CASE p.ctor.tag = "Wildcard" -> ctor_wildcard_fields(other_ctor, ty)
      [] p.ctor.tag = "Slice" /\ other_ctor.tag = "Slice"
           /\ slice_arity(p.ctor.slice) # slice_arity(other_ctor.slice) ->
            LET k == p.ctor.slice.kind
                n == slice_arity(p.ctor.slice)
                extra == slice_arity(other_ctor.slice) - n
            IN  SubSeq(p.fields, 1, k.p)
                  \o [i \in 1..extra |-> wildcard(ty.elem)]
                  \o SubSeq(p.fields, n - k.s + 1, n)
      [] OTHER -> p.fields

\* Matrix::specialize_constructor.
specialize_constructor(matrix, ctor, ty) ==
    Concat([i \in 1..Len(matrix) |->
               IF is_covered_by(ctor, matrix[i].pats[1].ctor)
               THEN expand_row(Row(pat_specialize(matrix[i].pats[1], ctor, ty)
                                     \o Tail(matrix[i].pats), i))
               ELSE <<>>])

wild_from_ctor(ctor, ty) ==
    LET fs == ctor_wildcard_fields(ctor, ty)
    IN  WitnessPat(ctor, [i \in 1..Len(fs) |-> WitnessPat(Wildcard, <<>>, fs[i].ty)], ty)

\* WitnessStack::apply_constructor: the first arity columns become the
\* fields of `ctor`.  An arity the stack does not have is a panic.
stack_apply_constructor(w, ctor, ty) ==
    LET arity == ctor_arity(ctor, ty)
    IN  IF arity < 0 \/ arity > Len(w) THEN <<PatBug>>
        ELSE <<WitnessPat(ctor, SubSeq(w, 1, arity), ty)>> \o SubSeq(w, arity + 1, Len(w))

\* WitnessMatrix::apply_constructor.
apply_constructor(ws, missing_ctors, ctor, ty, report_individual_missing_ctors) ==
    IF ws = <<>> THEN <<>>
    ELSE IF ctor.tag = "Missing"
    THEN IF ~report_individual_missing_ctors
         THEN [i \in 1..Len(ws) |-> <<wild_from_ctor(Wildcard, ty)>> \o ws[i]]
         ELSE IF \E j \in 1..Len(missing_ctors) : missing_ctors[j].tag = "NonExhaustive"
         THEN [i \in 1..Len(ws) |-> <<wild_from_ctor(NonExhaustive, ty)>> \o ws[i]]
         ELSE Concat([j \in 1..Len(missing_ctors) |->
                         [i \in 1..Len(ws) |->
                             <<wild_from_ctor(missing_ctors[j], ty)>> \o ws[i]]])
    ELSE [i \in 1..Len(ws) |-> stack_apply_constructor(ws[i], ctor, ty)]

\* WitnessMatrix::extend, the union being capped.
extend(ws, more) ==
    LET all == ws \o more
    IN  IF Len(all) > WITNESS_CAP THEN SubSeq(all, 1, WITNESS_CAP) ELSE all

RECURSIVE extend_all(_)
extend_all(wss) ==
    IF wss = <<>> THEN <<>>
    ELSE extend(extend_all(SubSeq(wss, 1, Len(wss) - 1)), wss[Len(wss)])

\* witnesses: the uncovered cases found; useful: per row; exhaustive: whether
\* the matrix covers every value; failed: whether a bug!() was hit.
Verdict(witnesses, useful, exhaustive, failed) ==
    [witnesses |-> witnesses, useful |-> useful, exhaustive |-> exhaustive,
     failed |-> failed]

RECURSIVE witness_has_bug(_)
witness_has_bug(w) ==
    \/ w.ctor = CtorBug
    \/ \E i \in 1..Len(w.fields) : witness_has_bug(w.fields[i])

\* Every row of a matrix without columns taken for useful.
base_verdict_all_useful(matrix) ==
    Verdict(IF matrix = <<>> THEN <<<<>>>> ELSE <<>>,
            Force([i \in 1..Len(matrix) |-> TRUE]),
            matrix # <<>>,
            \E i \in 1..Len(matrix) : matrix[i].pats # <<>>)

\* The verdict on a matrix without columns: it covers the one remaining
\* value exactly when it has a row, and only its first row is useful.
base_verdict(matrix) ==
    Verdict(IF matrix = <<>> THEN <<<<>>>> ELSE <<>>,
            Force([i \in 1..Len(matrix) |-> i = 1]),
            matrix # <<>>,
            \E i \in 1..Len(matrix) : matrix[i].pats # <<>>)

\* One activation of compute_exhaustiveness_and_usefulness on a matrix with
\* columns: the constructors its first column is split into (ctors), the next
\* of them to specialize by (k), the results of those already done
\* (branches), and the matrix specialized by the one under way (spec_matrix).
enter_matrix(matrix, tys, is_top_level) ==
    Bind(ctors_for_ty(tys[1]), LAMBDA cset :
      Bind(split(cset, [i \in 1..Len(matrix) |-> matrix[i].pats[1].ctor] \o <<>>,
                 is_top_level),
           LAMBDA split_set :
             [matrix |-> matrix, tys |-> tys, is_top_level |-> is_top_level,
              cset |-> cset, split_set |-> split_set,
              ctors |-> split_set.present
                          \o (IF split_set.missing # <<>> THEN <<Missing>> ELSE <<>>),
              k |-> 1, branches |-> <<>>, spec_matrix |-> <<>>]))

\* The column types of the matrix specialized by `ctor`.
specialized_tys(f, ctor) ==
    Bind(ctor_wildcard_fields(ctor, f.tys[1]), LAMBDA fs :
      Force([i \in 1..Len(fs) |-> fs[i].ty] \o Tail(f.tys)))

\* What the verdict `sub` on the matrix specialized by `ctor` contributes.
branch_result(f, ctor, spec_matrix, sub) ==
    LET ty == f.tys[1]
        missing_ctors == f.split_set.missing
        all_missing == f.split_set.present = <<>>
        always_report_all == f.is_top_level /\ f.cset.set # "Integers"
        report_individual_missing_ctors == always_report_all \/ ~all_missing
        counts_for_exhaustiveness ==
            IF ctor.tag = "Missing" THEN missing_ctors # <<>> ELSE missing_ctors = <<>>
    IN  [witnesses |->
             IF counts_for_exhaustiveness
             THEN apply_constructor(sub.witnesses, missing_ctors, ctor, ty,
                                    report_individual_missing_ctors)
             ELSE <<>>,
         useful_parents |->
             {spec_matrix[c].parent : c \in {d \in 1..Len(spec_matrix) : sub.useful[d]}},
         exhaustive |-> sub.exhaustive,
         failed |-> \/ sub.failed
                    \/ ctor_wildcard_fields(ctor, ty) = FieldsBug
                    \/ ctor_arity(ctor, ty) = ArityBug]

\* The verdict on the matrix of `f` from the results of all its branches.
combine_branches(f, branches) ==
    Verdict(extend_all([k \in 1..Len(branches) |-> branches[k].witnesses]),
            Force([i \in 1..Len(f.matrix) |->
                      \E k \in 1..Len(branches) : i \in branches[k].useful_parents]),
            \A k \in 1..Len(branches) : branches[k].exhaustive,
            \/ f.cset = CsBug
            \/ \E i \in 1..Len(f.matrix) : Len(f.matrix[i].pats) # Len(f.tys)
            \/ \E k \in 1..Len(branches) : branches[k].failed
            \/ \E j \in 1..Len(f.split_set.missing) :
                  ctor_wildcard_fields(f.split_set.missing[j], f.tys[1]) = FieldsBug)

RECURSIVE compute_exhaustiveness_and_usefulness(_, _, _)
\* Returns the witnesses of the uncovered values and, per row of `matrix`,
\* whether the row is useful.  `tys` are the types of the columns.
compute_exhaustiveness_and_usefulness(matrix, tys, is_top_level) ==
    IF tys = <<>> THEN base_verdict(matrix)
    ELSE Bind(enter_matrix(matrix, tys, is_top_level), LAMBDA f :
           LET branch(ctor) ==
                 Bind(specialize_constructor(matrix, ctor, tys[1]), LAMBDA spec_matrix :
                   Bind(specialized_tys(f, ctor), LAMBDA spec_tys :
                     Bind(compute_exhaustiveness_and_usefulness(spec_matrix, spec_tys,
                                                                FALSE),
                          LAMBDA sub : branch_result(f, ctor, spec_matrix, sub))))
           IN  Bind(Force([k \in 1..Len(f.ctors) |-> branch(f.ctors[k])]),
                    LAMBDA branches : combine_branches(f, branches)))

\* The matrix of a match: one row per arm, or-patterns expanded.
arms_matrix(lowered_arms) ==
    Concat([a \in 1..Len(lowered_arms) |-> expand_row(Row(<<lowered_arms[a]>>, a))])

\* The report read off the verdict on the matrix of the arms.
usefulness_report(lowered_arms, v) ==
    Bind(arms_matrix(lowered_arms), LAMBDA matrix :
      [exhaustive |-> v.exhaustive,
       arm_usefulness |->
           Force([a \in 1..Len(lowered_arms) |->
                     \E r \in 1..Len(matrix) : matrix[r].parent = a /\ v.useful[r]]),
       non_exhaustiveness_witnesses |->
           Force([i \in 1..Len(v.witnesses) |-> v.witnesses[i][1]]),
       failed |-> v.failed \/ \E i \in 1..Len(v.witnesses) :
                                 witness_has_bug(v.witnesses[i][1])])

\* compute_match_usefulness: the report for the lowered arms of one match.
compute_match_usefulness(lowered_arms, ty) ==
    Bind(compute_exhaustiveness_and_usefulness(arms_matrix(lowered_arms), <<ty>>, TRUE),
         LAMBDA v : usefulness_report(lowered_arms, v))

(***************************************************************************)
(* Reference semantics: the values of a type and whether a surface pattern *)
(* matches a value, by direct enumeration.  Integers are their bits.       *)
(***************************************************************************)
MaxSliceLen == 3

VBool(b) == [vk |-> "bool", b |-> b]
VInt(bits) == [vk |-> "int", bits |-> bits]
VAgg(idx, fs) == [vk |-> "agg", idx |-> idx, fs |-> fs]
VRef(inner) == [vk |-> "ref", inner |-> inner]
VSlice(elems) == [vk |-> "slice", elems |-> elems]

RECURSIVE Tuples(_)
\* The sequences whose i-th element is drawn from the i-th set.
Tuples(sets) ==
    IF sets = <<>> THEN {<<>>}
    ELSE {<<x>> \o t : x \in Head(sets), t \in Tuples(Tail(sets))}

RECURSIVE Values(_)
Values(ty) ==
    CASE ty.kind = "Bool" -> {VBool(TRUE), VBool(FALSE)}
      [] ty.kind \in {"Int", "Uint"} -> {VInt(b) : b \in 0..(Pow2(ty.bits) - 1)}
      [] ty.kind = "Tuple" ->
            {VAgg(0, t) : t \in Tuples([i \in 1..Len(ty.fs) |-> Values(ty.fs[i])])}
      [] ty.kind = "Ref" -> {VRef(v) : v \in Values(ty.rty)}
      [] ty.kind = "Adt" /\ ty.is_box -> {VRef(v) : v \in Values(ty.arg0)}
      [] ty.kind = "Adt" ->
            UNION {{VAgg(i - 1, t) :
                       t \in Tuples([j \in 1..Len(ty.variants[i].fields) |->
                                        Values(ty.variants[i].fields[j].ty)])} :
                   i \in 1..Len(ty.variants)}
      [] ty.kind = "Slice" ->
            {VSlice(e) : e \in SeqsUpTo(Values(ty.elem), MaxSliceLen)}
      [] ty.kind = "Array" ->
            {VSlice(e) : e \in {x \in SeqsUpTo(Values(ty.elem), unwrap(ty.len)) :
                                   Len(x) = unwrap(ty.len)}}
      [] OTHER -> {}

\* The number an integer type's bits denote.
to_num(ty, bits) ==
    IF ty.kind = "Int" /\ bits >= Pow2(ty.bits - 1) THEN bits - Pow2(ty.bits) ELSE bits

RECURSIVE Matches(_, _)
Matches(p, v) ==
    CASE p.kind \in {"Wild", "Never"} -> TRUE
      [] p.kind = "Binding" ->
            IF is_some(p.subpattern) THEN Matches(unwrap(p.subpattern), v) ELSE TRUE
      [] p.kind \in {"AscribeUserType", "InlineConstant"} -> Matches(p.subpattern, v)
      [] p.kind = "Deref" -> Matches(p.subpattern, v.inner)
      [] p.kind = "Leaf" /\ p.ty.kind = "Adt" /\ p.ty.is_box ->
            \A i \in 1..Len(p.subpatterns) :
                p.subpatterns[i].field = 0 => Matches(p.subpatterns[i].pattern, v.inner)
      [] p.kind = "Leaf" ->
            \A i \in 1..Len(p.subpatterns) :
                Matches(p.subpatterns[i].pattern, v.fs[p.subpatterns[i].field + 1])
      [] p.kind = "Variant" ->
            /\ v.idx = p.variant_index
            /\ \A i \in 1..Len(p.subpatterns) :
                  Matches(p.subpatterns[i].pattern, v.fs[p.subpatterns[i].field + 1])
      [] p.kind = "Constant" ->
            IF p.ty.kind = "Bool" THEN v.b = (p.value.bits = 1) ELSE v.bits = p.value.bits
      [] p.kind = "Range" ->
            LET x == to_num(p.ty, v.bits)
            IN  /\ p.lo.b = "Finite" => to_num(p.ty, p.lo.value.bits) <= x
                /\ p.lo.b # "PosInfinity"
                /\ p.hi.b = "Finite" =>
                      IF p.end = "Included" THEN x <= to_num(p.ty, p.hi.value.bits)
                      ELSE x < to_num(p.ty, p.hi.value.bits)
                /\ p.hi.b # "NegInfinity"
      [] p.kind \in {"Slice", "Array"} ->
            LET n == Len(v.elems)
                np == Len(p.prefix)
                ns == Len(p.suffix)
            IN  /\ IF is_some(p.slice) THEN np + ns <= n ELSE np + ns = n
                /\ \A i \in 1..np : Matches(p.prefix[i], v.elems[i])
                /\ \A i \in 1..ns : Matches(p.suffix[i], v.elems[n - ns + i])
      [] p.kind = "Or" -> \E i \in 1..Len(p.pats) : Matches(p.pats[i], v)
      [] OTHER -> FALSE

(***************************************************************************)
(* The matches checked: stand-in types and the arms drawn for them.        *)
(***************************************************************************)
MaxStepArms == 2
MaxArms == 3
MaxStartId == 1

U2 == UintTy(2)
I2 == IntTy(2)
U8 == UintTy(8)
OptionTy(t) ==
    EnumTy("Option", FALSE, FALSE, <<VariantDef(<<>>), VariantDef(<<FieldDef(t, TRUE)>>)>>)
E3 == EnumTy("E3", TRUE, FALSE, <<VariantDef(<<>>), VariantDef(<<>>), VariantDef(<<>>)>>)
\* An enum of another crate declared #[non_exhaustive].
ForeignNE == EnumTy("ForeignNE", FALSE, TRUE, <<VariantDef(<<>>), VariantDef(<<>>)>>)
Pair == TupleTy(<<BoolTy, BoolTy>>)

PInt(ty, n) == PConstant(ty, Const(n))
PIncl(ty, lo, hi) == PRange(ty, BdyFinite(Const(lo)), BdyFinite(Const(hi)), "Included")
PExcl(ty, lo, hi) == PRange(ty, BdyFinite(Const(lo)), BdyFinite(Const(hi)), "Excluded")
PTrue == PConstant(BoolTy, Const(1))
PFalse == PConstant(BoolTy, Const(0))
PUnit(ty, idx) == PVariant(ty, idx, <<>>)
PSome(t, sub) == PVariant(OptionTy(t), 1, <<FieldPat(0, sub)>>)
PNone(t) == PVariant(OptionTy(t), 0, <<>>)
PPair(a, b) == PLeaf(Pair, <<FieldPat(0, a), FieldPat(1, b)>>)

BoolPats ==
    {PWild(BoolTy), PTrue, PFalse, POr(BoolTy, <<PTrue, PFalse>>),
     PBinding(BoolTy, Some(PTrue)), PConstant(BoolTy, Unevaluable)}
U2Pats ==
    {PWild(U2), PInt(U2, 0), PInt(U2, 3), PIncl(U2, 0, 1), PIncl(U2, 1, 2), PIncl(U2, 2, 3),
     PExcl(U2, 0, 2), PRange(U2, BdyFinite(Const(2)), BdyPosInfinity, "Included")}
\* i2: the bits 2, 3, 0, 1 denote -2, -1, 0, 1.
I2Pats ==
    {PWild(I2), PInt(I2, 2), PInt(I2, 3), PInt(I2, 0), PInt(I2, 1),
     PIncl(I2, 2, 3), PIncl(I2, 3, 0), PIncl(I2, 0, 1), PIncl(I2, 3, 1)}
\* Option<i2>: Some(-2..=-1) is Some of the bits 2..=3.
OptionPats ==
    {PWild(OptionTy(I2)), PNone(I2), PSome(I2, PWild(I2)), PSome(I2, PInt(I2, 1)),
     PSome(I2, PIncl(I2, 0, 1)), PSome(I2, PIncl(I2, 2, 3))}
PairPats ==
    {PWild(Pair), PPair(PConstant(BoolTy, Unevaluable), PTrue),
     PPair(POr(BoolTy, <<PTrue, PFalse>>), PFalse)} \cup
    ({PPair(a, b) : a \in {PWild(BoolTy), PTrue, PFalse},
                    b \in {PWild(BoolTy), PTrue, PFalse}}
       \ {PPair(PWild(BoolTy), PWild(BoolTy))})
E3Pats ==
    {PWild(E3), PUnit(E3, 0), PUnit(E3, 1), PUnit(E3, 2),
     POr(E3, <<PUnit(E3, 0), PUnit(E3, 1)>>),
     POr(E3, <<POr(E3, <<PUnit(E3, 2), PUnit(E3, 0)>>), PUnit(E3, 1)>>)}
ForeignNEPats ==
    {PWild(ForeignNE), PUnit(ForeignNE, 0), PUnit(ForeignNE, 1),
     POr(ForeignNE, <<PUnit(ForeignNE, 0), PUnit(ForeignNE, 1)>>),
     PBinding(ForeignNE, None)}
U8Pats ==
    {PWild(U8), PIncl(U8, 0, 9), PIncl(U8, 10, 255), PIncl(U8, 5, 20), PIncl(U8, 21, 255),
     PIncl(U8, 10, 20), PInt(U8, 255), PExcl(U8, 0, 10)}
\* [bool]: [], [_], [_, _], [_, ..], [.., _], [true, ..], [false, ..].
BoolSlice == SliceTy(BoolTy)
PSeq(prefix) == PSlice(BoolSlice, prefix, None, <<>>)
PRest(prefix, suffix) == PSlice(BoolSlice, prefix, Some(PWild(BoolSlice)), suffix)
SlicePats ==
    {PSeq(<<>>), PSeq(<<PWild(BoolTy)>>), PSeq(<<PWild(BoolTy), PWild(BoolTy)>>),
     PRest(<<PWild(BoolTy)>>, <<>>), PRest(<<>>, <<PWild(BoolTy)>>),
     PRest(<<PTrue>>, <<>>), PRest(<<PFalse>>, <<>>)}
\* usize, whose upper end is not a boundary of the type.
USize == UsizeTy(2)
USizePats ==
    {PWild(USize), PInt(USize, 0), PIncl(USize, 0, 3),
     PRange(USize, BdyFinite(Const(1)), BdyPosInfinity, "Included")}

\* isize: the bits 2, 3, 0, 1 denote MIN = -2, -1, 0, MAX = 1.
ISize == IsizeTy(2)
ISizePats ==
    {PWild(ISize), PInt(ISize, 0), PIncl(ISize, 2, 1),
     PRange(ISize, BdyNegInfinity, BdyFinite(Const(0)), "Excluded"),
     PRange(ISize, BdyFinite(Const(0)), BdyPosInfinity, "Included")}
\* A type parameter T: its constants cannot be compared structurally.
ParamPats ==
    {PWild(ParamTy), PConstant(ParamTy, Const(1)), PConstant(ParamTy, Const(2))}

ArmLists(pats, n) == SeqsUpTo(pats, n) \ {<<>>}
Match(ty, arm_list) == [ty |-> ty, arms |-> arm_list]

MatchInputs ==
    {Match(BoolTy, a) : a \in ArmLists(BoolPats, MaxArms)}
    \cup {Match(U2, a) : a \in ArmLists(U2Pats, MaxArms - 1)}
    \cup {Match(I2, a) : a \in ArmLists(I2Pats, MaxArms - 1)}
    \cup {Match(OptionTy(I2), a) : a \in ArmLists(OptionPats, MaxArms)}
    \cup {Match(Pair, a) : a \in ArmLists(PairPats, MaxArms)}
    \cup {Match(E3, a) : a \in ArmLists(E3Pats, MaxArms)}
    \cup {Match(ForeignNE, a) : a \in ArmLists(ForeignNEPats, MaxArms)}
    \cup {Match(U8, a) : a \in ArmLists(U8Pats, MaxArms - 1)}
    \cup {Match(BoolSlice, a) : a \in ArmLists(SlicePats, MaxArms)}
    \cup {Match(USize, a) : a \in ArmLists(USizePats, MaxArms - 1)}
    \cup {Match(ParamTy, a) : a \in ArmLists(ParamPats, MaxArms - 1)}
    \cup {Match(ISize, a) : a \in ArmLists(ISizePats, MaxArms - 1)}

(***************************************************************************)
(* The checking session: lower the arms, run the engine, hoist the         *)
(* witnesses, and check the same match once more in the same session.      *)
(***************************************************************************)
NoReport == [exhaustive |-> FALSE, arm_usefulness |-> <<>>,
             non_exhaustiveness_witnesses |-> <<>>, failed |-> FALSE]
NoRun == [report |-> NoReport, hoisted |-> <<>>]
NoProbe == [op |-> "none"]

lower_arms(arm_list, id) == lower_pats_from(arm_list, id)

hoist_all(ws) == Force([i \in 1..Len(ws) |-> hoist_witness_pat(ws[i])])

Init ==
    /\ cx = [exhaustive_patterns |-> FALSE]
    /\ \E m \in MatchInputs : scrut_ty = m.ty /\ arms = m.arms
    /\ next_id \in 0..MaxStartId
    /\ rows = <<>>
    /\ report = NoReport
    /\ hoisted = <<>>
    /\ rerun = NoRun
    /\ probe = NoProbe
    /\ out = NoProbe
    /\ stack = <<>>
    /\ ret = None
    /\ pc = "start"

LowerArms ==
    /\ pc = "start"
    /\ \E low \in {lower_arms(arms, next_id)} :
           /\ rows' = low.pats
           /\ next_id' = low.next
           /\ pc' = IF \E i \in 1..Len(low.pats) : pat_has_bug(low.pats[i])
                    THEN "failed" ELSE "lowered"
    /\ UNCHANGED <<cx, scrut_ty, arms, report, hoisted, rerun, probe, out, stack, ret>>

CheckMatch ==
    /\ pc = "lowered"
    /\ \E r \in {compute_match_usefulness(rows, scrut_ty)} :
           /\ report' = r
           /\ pc' = IF r.failed THEN "failed" ELSE "checked"
    /\ UNCHANGED <<cx, scrut_ty, arms, rows, hoisted, next_id, rerun, probe, out, stack, ret>>

HoistWitnesses ==
    /\ pc = "checked"
    /\ hoisted' = hoist_all(report.non_exhaustiveness_witnesses)
    /\ pc' = "hoisted"
    /\ UNCHANGED <<cx, scrut_ty, arms, rows, report, next_id, rerun, probe, out, stack, ret>>

CheckAgain ==
    /\ pc = "hoisted"
    /\ \E low \in {lower_arms(arms, next_id)} :
         \E r \in {compute_match_usefulness(low.pats, scrut_ty)} :
           /\ rerun' = [report |-> r, hoisted |-> hoist_all(r.non_exhaustiveness_witnesses)]
           /\ next_id' = low.next
    /\ pc' = "rechecked"
    /\ UNCHANGED <<cx, scrut_ty, arms, rows, report, hoisted, probe, out, stack, ret>>

Next == LowerArms \/ CheckMatch \/ HoistWitnesses \/ CheckAgain

Spec == Init /\ [][Next]_vars

(***************************************************************************)
(* The engine step by step: compute_exhaustiveness_and_usefulness as the   *)
(* activations it has on its call stack.  An activation specializes its    *)
(* matrix by the constructors of its split one after the other; each       *)
(* specialization is a call, which returns at once when the specialized    *)
(* matrix has no columns left.                                             *)
(***************************************************************************)
\* The matches the stepwise engine is run on.
StepPairPats ==
    {PWild(Pair), PPair(PConstant(BoolTy, Unevaluable), PTrue),
     PPair(POr(BoolTy, <<PTrue, PFalse>>), PFalse),
     PPair(PTrue, PWild(BoolTy)), PPair(PWild(BoolTy), PFalse),
     PPair(POr(BoolTy, <<PFalse, PBinding(BoolTy, Some(POr(BoolTy, <<PTrue, PFalse>>)))>>),
           PTrue)}

StepInputs ==
    {Match(USize, a) : a \in ArmLists(USizePats, MaxStepArms)}
    \cup {Match(BoolSlice, a) : a \in ArmLists(SlicePats, MaxStepArms)}
    \cup {Match(E3, a) : a \in ArmLists(E3Pats, MaxStepArms)}
    \cup {Match(Pair, a) : a \in ArmLists(StepPairPats, MaxStepArms)}
    \cup {Match(OptionTy(I2), a) : a \in ArmLists(OptionPats, MaxStepArms)}

StepInit ==
    /\ cx = [exhaustive_patterns |-> FALSE]
    /\ \E m \in StepInputs : scrut_ty = m.ty /\ arms = m.arms
    /\ next_id = 0
    /\ rows = <<>>
    /\ report = NoReport
    /\ hoisted = <<>>
    /\ rerun = NoRun
    /\ probe = NoProbe
    /\ out = NoProbe
    /\ stack = <<>>
    /\ ret = None
    /\ pc = "start"

top_frame == stack[Len(stack)]
replace_top(f) == [stack EXCEPT ![Len(stack)] = f]

\* compute_match_usefulness calls the engine on the matrix of the arms.
EnterMatch ==
    /\ pc = "lowered"
    /\ stack' = <<enter_matrix(arms_matrix(rows), <<scrut_ty>>, TRUE)>>
    /\ ret' = None
    /\ pc' = "running"
    /\ UNCHANGED <<cx, scrut_ty, arms, rows, report, hoisted, next_id, rerun, probe, out>>

\* The innermost activation specializes by its next constructor and calls
\* itself on the result.
Specialize ==
    /\ pc = "running"
    /\ ret = None
    /\ stack # <<>>
    /\ top_frame.k <= Len(top_frame.ctors)
    /\ \E f \in {top_frame} :
       \E ctor \in {f.ctors[f.k]} :
       \E spec_matrix \in {specialize_constructor(f.matrix, ctor, f.tys[1])} :
       \E spec_tys \in {specialized_tys(f, ctor)} :
       \E caller \in {replace_top([f EXCEPT !.spec_matrix = spec_matrix])} :
          IF spec_tys = <<>>
          THEN /\ stack' = caller
               /\ ret' = Some(base_verdict(spec_matrix))
          ELSE /\ stack' = Append(caller, enter_matrix(spec_matrix, spec_tys, FALSE))
               /\ ret' = None
    /\ UNCHANGED <<cx, scrut_ty, arms, rows, report, hoisted, next_id, rerun, probe, out, pc>>

\* The caller takes the verdict of the call it made and moves on to its
\* next constructor.
TakeBranch ==
    /\ pc = "running"
    /\ is_some(ret)
    /\ stack # <<>>
    /\ \E f \in {top_frame} :
         stack' = replace_top(
                    [f EXCEPT !.branches = Append(@, branch_result(f, f.ctors[f.k],
                                                                   f.spec_matrix,
                                                                   unwrap(ret))),
                              !.k = @ + 1,
                              !.spec_matrix = <<>>])
    /\ ret' = None
    /\ UNCHANGED <<cx, scrut_ty, arms, rows, report, hoisted, next_id, rerun, probe, out, pc>>

\* The innermost activation has done all its constructors and returns.
ReturnVerdict ==
    /\ pc = "running"
    /\ ret = None
    /\ stack # <<>>
    /\ top_frame.k > Len(top_frame.ctors)
    /\ ret' = Some(combine_branches(top_frame, top_frame.branches))
    /\ stack' = SubSeq(stack, 1, Len(stack) - 1)
    /\ UNCHANGED <<cx, scrut_ty, arms, rows, report, hoisted, next_id, rerun, probe, out, pc>>

\* compute_match_usefulness turns the outermost verdict into the report.
ReportMatch ==
    /\ pc = "running"
    /\ is_some(ret)
    /\ stack = <<>>
    /\ \E r \in {usefulness_report(rows, unwrap(ret))} :
           /\ report' = r
           /\ pc' = IF r.failed THEN "failed" ELSE "checked"
    /\ ret' = None
    /\ UNCHANGED <<cx, scrut_ty, arms, rows, hoisted, next_id, rerun, probe, out, stack>>

StepNext ==
    \/ LowerArms
    \/ EnterMatch
    \/ Specialize
    \/ TakeBranch
    \/ ReturnVerdict
    \/ ReportMatch

\* A check that has been started is carried through: nothing suspends it.
StepSpec == StepInit /\ [][StepNext]_vars /\ WF_vars(StepNext)

(***************************************************************************)
(* Brute-force reference: the verdicts read off the enumeration of the     *)
(* scrutinee type's values.                                                *)
(***************************************************************************)
\* The surface pattern mentions no constant whose value is unknown.
RECURSIVE Evaluable(_)
Evaluable(p) ==
    CASE p.kind \in {"Wild", "Never", "Range"} -> TRUE
      [] p.kind = "Binding" ->
            IF is_some(p.subpattern) THEN Evaluable(unwrap(p.subpattern)) ELSE TRUE
      [] p.kind \in {"AscribeUserType", "InlineConstant", "Deref"} -> Evaluable(p.subpattern)
      [] p.kind \in {"Leaf", "Variant"} ->
            \A i \in 1..Len(p.subpatterns) : Evaluable(p.subpatterns[i].pattern)
      [] p.kind = "Constant" -> p.value.eval
      [] p.kind \in {"Slice", "Array"} ->
            /\ \A i \in 1..Len(p.prefix) : Evaluable(p.prefix[i])
            /\ \A i \in 1..Len(p.suffix) : Evaluable(p.suffix[i])
      [] p.kind = "Or" -> \A i \in 1..Len(p.pats) : Evaluable(p.pats[i])
      [] OTHER -> FALSE

ArmsEvaluable == \A i \in 1..Len(arms) : Evaluable(arms[i])

\* A type all of whose values the enumeration lists: bools, n-bit integers,
\* and tuples and enums of them that no other crate may extend.
RECURSIVE FiniteStandIn(_)
FiniteStandIn(ty) ==
    CASE ty.kind = "Bool" -> TRUE
      [] ty.kind \in {"Int", "Uint"} -> ~is_ptr_sized_integral(ty)
      [] ty.kind = "Tuple" -> \A i \in 1..Len(ty.fs) : FiniteStandIn(ty.fs[i])
      [] ty.kind = "Adt" /\ ~ty.is_box ->
            /\ ~(ty.non_exhaustive /\ ~ty.is_local)
            /\ \A v \in 1..Len(ty.variants) :
                 \A f \in 1..Len(ty.variants[v].fields) :
                     FiniteStandIn(ty.variants[v].fields[f].ty)
      [] OTHER -> FALSE

Covered(v) == \E i \in 1..Len(arms) : Matches(arms[i], v)
Reaches(i, v) == Matches(arms[i], v) /\ \A j \in 1..(i - 1) : ~Matches(arms[j], v)
Checked == pc \in {"checked", "hoisted", "rechecked"}
Hoisted == pc \in {"hoisted", "rechecked"}

\* C1: on a finite stand-in type, the engine's verdict is "exhaustive" exactly
\* when every enumerated value of the type is matched by some arm.
C1_ExhaustivenessSound ==
    (Checked /\ FiniteStandIn(scrut_ty) /\ ArmsEvaluable)
        => (report.exhaustive <=> \A v \in Values(scrut_ty) : Covered(v))

\* An exhaustive match of the pair type without a catch-all arm, and a match
\* the engine rejects: both sides of C1 occur.
C1_Witness ==
    /\ pc = "checked" /\ scrut_ty = Pair /\ Len(arms) = 3
    /\ \A i \in 1..3 : arms[i].kind = "Leaf"
    /\ report.exhaustive
    /\ \A v \in Values(Pair) : Covered(v)

\* C2: on a finite stand-in type, arm i is reported useful exactly when some
\* enumerated value is matched by arm i and by no earlier arm; in particular
\* [Some(_), Some(1), None] has its second arm not useful, the others useful.
C2_UsefulnessSound ==
    /\ (Checked /\ FiniteStandIn(scrut_ty) /\ ArmsEvaluable)
          => /\ Len(report.arm_usefulness) = Len(arms)
             /\ \A i \in 1..Len(arms) :
                   report.arm_usefulness[i] <=> \E v \in Values(scrut_ty) : Reaches(i, v)
    /\ (Checked /\ arms = <<PSome(I2, PWild(I2)), PSome(I2, PInt(I2, 1)), PNone(I2)>>)
          => report.arm_usefulness = <<TRUE, FALSE, TRUE>>

C2_Witness ==
    /\ pc = "checked"
    /\ arms = <<PSome(I2, PWild(I2)), PSome(I2, PInt(I2, 1)), PNone(I2)>>
    /\ report.arm_usefulness = <<TRUE, FALSE, TRUE>>
    /\ ~\E v \in Values(scrut_ty) : Reaches(2, v)

\* The witness stands for a value no declaration of the type lists: it has a
\* NonExhaustive or Hidden marker in it.
RECURSIVE HasMarker(_)
HasMarker(w) ==
    \/ w.ctor.tag \in {"NonExhaustive", "Hidden"}
    \/ \E i \in 1..Len(w.fields) : HasMarker(w.fields[i])

\* The enumerated value v is one of those the i-th returned witness denotes.
Denotes(i, v) ==
    /\ ~HasMarker(report.non_exhaustiveness_witnesses[i])
    /\ Matches(hoisted[i], v)

\* The enumeration lists the declared values of the type: all of them for a
\* finite stand-in, the declared variants of an enum other crates may extend,
\* the slices up to MaxSliceLen.  (A pointer-sized integer has none listed
\* beyond its stand-in width.)
Enumerated(ty) ==
    FiniteStandIn(ty) \/ ty = ForeignNE \/ ty = BoolSlice

C4_RangeCoverage ==
    /\ (Hoisted /\ arms = <<PIncl(U8, 0, 9), PIncl(U8, 10, 255)>>)
          => /\ report.exhaustive
             /\ report.arm_usefulness = <<TRUE, TRUE>>
             /\ hoisted = <<>>
    /\ (Hoisted /\ arms = <<PIncl(U8, 0, 9), PIncl(U8, 5, 20)>>)
          => /\ ~report.exhaustive
             /\ report.arm_usefulness[2]
             /\ hoisted = <<PIncl(U8, 21, 255)>>
    /\ (Hoisted /\ scrut_ty = U8)
          => \A i \in 1..Len(arms) :
                 arms[i].kind = "Range"
                    => (report.arm_usefulness[i]
                           <=> \E v \in Values(U8) : Reaches(i, v))

C4_Witness ==
    /\ pc = "hoisted"
    /\ arms = <<PIncl(U8, 0, 9), PIncl(U8, 5, 20)>>
    /\ hoisted = <<PIncl(U8, 21, 255)>>
    /\ \A v \in Values(U8) : Matches(hoisted[1], v) <=> ~Covered(v)

\* C5: over a slice type of unknown length with inhabited elements,
\* [[], [_, ..]] is exhaustive, [[], [_]] is not and its witness is
\* [_, _, ..], and the verdict is the coverage of every length by the arms.
C5_SliceCoverage ==
    /\ (Hoisted /\ arms = <<PSeq(<<>>), PRest(<<PWild(BoolTy)>>, <<>>)>>)
          => report.exhaustive /\ hoisted = <<>>
    /\ (Hoisted /\ arms = <<PSeq(<<>>), PSeq(<<PWild(BoolTy)>>)>>)
          => /\ ~report.exhaustive
             /\ hoisted = <<PRest(<<PWild(BoolTy), PWild(BoolTy)>>, <<>>)>>
    /\ (Hoisted /\ scrut_ty = BoolSlice)
          => (report.exhaustive <=> \A v \in Values(BoolSlice) : Covered(v))

C5_Witness ==
    /\ pc = "hoisted"
    /\ arms = <<PSeq(<<>>), PSeq(<<PWild(BoolTy)>>)>>
    /\ hoisted = <<PRest(<<PWild(BoolTy), PWild(BoolTy)>>, <<>>)>>
    /\ \E v \in Values(BoolSlice) : Len(v.elems) = 2 /\ ~Covered(v)

\* An arm that takes every value: a wildcard or a plain binding, possibly
\* among the alternatives of an or-pattern.
RECURSIVE CatchAll(_)
CatchAll(p) ==
    CASE p.kind = "Wild" -> TRUE
      [] p.kind = "Binding" ->
            IF is_some(p.subpattern) THEN CatchAll(unwrap(p.subpattern)) ELSE TRUE
      [] p.kind = "Or" -> \E i \in 1..Len(p.pats) : CatchAll(p.pats[i])
      [] OTHER -> FALSE

NamesVariant(idx) ==
    \E i \in 1..Len(arms) : Matches(arms[i], VAgg(idx, <<>>)) /\ ~CatchAll(arms[i])

\* C6: for an enum another crate declares non-exhaustive, arms that name every
\* declared variant and have no wildcard are not exhaustive and the witnesses
\* hold a wildcard; the match is exhaustive only with a wildcard or binding arm.
C6_ForeignNonExhaustive ==
    (Hoisted /\ scrut_ty = ForeignNE)
        => /\ report.exhaustive <=> \E i \in 1..Len(arms) : CatchAll(arms[i])
           /\ ~report.exhaustive => \E i \in 1..Len(hoisted) : hoisted[i] = PWild(scrut_ty)

C6_Witness ==
    /\ pc = "hoisted"
    /\ scrut_ty = ForeignNE
    /\ NamesVariant(0) /\ NamesVariant(1)
    /\ ~\E i \in 1..Len(arms) : CatchAll(arms[i])
    /\ ~report.exhaustive
    /\ hoisted = <<PWild(ForeignNE)>>

(***************************************************************************)
(* Probing ctor_arity and ctor_wildcard_fields: one constructor and one    *)
(* type it is valid for, under either setting of exhaustive_patterns.      *)
(***************************************************************************)
MaxFields == 2

FieldDefs == {FieldDef(t, vis) : t \in {BoolTy, NeverTy}, vis \in BOOLEAN}
VariantDefs ==
    {[fields |-> fs, field_list_non_exhaustive |-> ne, unstable |-> FALSE,
      doc_hidden |-> FALSE] : fs \in SeqsUpTo(FieldDefs, MaxFields), ne \in BOOLEAN}
ProbeStructs == {StructTy("S", local, v) : local \in BOOLEAN, v \in VariantDefs}
ProbeEnums ==
    {EnumTy("En", local, FALSE, <<VariantDef(<<>>), v>>) : local \in BOOLEAN, v \in VariantDefs}
ProbeSliceKinds ==
    {FixedLen(n) : n \in 0..MaxSliceLen}
    \cup {VarLen(p, s) : p \in 0..MaxSliceLen, s \in 0..MaxSliceLen}
ProbeSeqTys == {SliceTy(BoolTy), ArrayTy(U2, Some(MaxSliceLen)), ArrayTy(BoolTy, None)}

ArityProbe(ctor, ty) == [op |-> "arity", ctor |-> ctor, ty |-> ty]

ArityProbes ==
    {ArityProbe(Single, ty) :
        ty \in {TupleTy(<<>>), TupleTy(<<BoolTy>>), Pair, TupleTy(<<BoolTy, U2, NeverTy>>),
                RefTy(BoolTy), RefTy(Pair), BoxTy(BoolTy), BoxTy(NeverTy)}}
    \cup {ArityProbe(Single, ty) : ty \in ProbeStructs}
    \cup {ArityProbe(Variant(idx), ty) : idx \in {0, 1}, ty \in ProbeEnums}
    \cup {ArityProbe(Slice(slice_new(IF ty.kind = "Array" THEN ty.len ELSE None, kind)), ty) :
             kind \in ProbeSliceKinds, ty \in ProbeSeqTys}
    \cup {ArityProbe(Bool(TRUE), BoolTy), ArityProbe(Bool(FALSE), BoolTy),
          ArityProbe(IntRange(from_bits(U2, 1)), U2),
          ArityProbe(IntRange(from_bits(CharTy, 97)), CharTy),
          ArityProbe(F32Range(FloatBits(0), FloatBits(1), "Included"), FloatTy(32)),
          ArityProbe(F64Range(FloatNegInf, FloatBits(1), "Excluded"), FloatTy(64)),
          ArityProbe(Str(Const(7)), StrTy),
          ArityProbe(Opaque(0), BoolTy), ArityProbe(Opaque(1), Pair),
          ArityProbe(NonExhaustive, ForeignNE), ArityProbe(Hidden, E3),
          ArityProbe(Missing, Pair), ArityProbe(Missing, E3),
          ArityProbe(Wildcard, Pair), ArityProbe(Wildcard, U2),
          ArityProbe(Or, BoolTy), ArityProbe(Or, Pair)}

ArityInit ==
    /\ cx \in {[exhaustive_patterns |-> b] : b \in BOOLEAN}
    /\ probe \in ArityProbes
    /\ scrut_ty = probe.ty
    /\ arms = <<>>
    /\ next_id = 0
    /\ rows = <<>>
    /\ report = NoReport
    /\ hoisted = <<>>
    /\ rerun = NoRun
    /\ out = NoProbe
    /\ stack = <<>>
    /\ ret = None
    /\ pc = "probe"

ProbeArity ==
    /\ pc = "probe"
    /\ probe.op = "arity"
    /\ out' = [op |-> "arity",
               arity |-> ctor_arity(probe.ctor, probe.ty),
               fields |-> ctor_wildcard_fields(probe.ctor, probe.ty)]
    /\ pc' = "probed"
    /\ UNCHANGED <<cx, scrut_ty, arms, rows, report, hoisted, next_id, rerun, probe, stack, ret>>

ArityNext == ProbeArity

AritySpec == ArityInit /\ [][ArityNext]_vars

\* A field the checker does not see: its type is visibly uninhabited, the
\* exhaustive_patterns feature is on, and the field is inaccessible or its
\* variant's field list is non-exhaustive in another crate.
FieldHidden(ty, variant, f) ==
    /\ cx.exhaustive_patterns
    /\ ~is_inhabited_from(f.ty)
    /\ ~(ty.is_enum \/ f.vis) \/ (variant.field_list_non_exhaustive /\ ~ty.is_local)

\* The types of the visible fields of ctor at ty, in order.
VisibleFieldTys(ctor, ty) ==
    CASE ctor.tag \in {"Single", "Variant"} /\ ty.kind = "Tuple" -> ty.fs
      [] ctor.tag \in {"Single", "Variant"} /\ ty.kind = "Ref" -> <<ty.rty>>
      [] ctor.tag \in {"Single", "Variant"} /\ ty.kind = "Adt" /\ ty.is_box -> <<ty.arg0>>
      [] ctor.tag \in {"Single", "Variant"} /\ ty.kind = "Adt" ->
            LET variant == ty.variants[IF ctor.tag = "Variant" THEN ctor.idx + 1 ELSE 1]
                visible == SelectSeq(variant.fields, LAMBDA f : ~FieldHidden(ty, variant, f))
            IN  [i \in 1..Len(visible) |-> visible[i].ty]
      [] ctor.tag = "Slice" ->
            [i \in 1..(IF ctor.slice.kind.k = "FixedLen" THEN ctor.slice.kind.n
                       ELSE ctor.slice.kind.p + ctor.slice.kind.s) |-> ty.elem]
      [] OTHER -> <<>>

\* C7: for every constructor other than Or and every type it is valid for, the
\* wildcard fields of ctor_wildcard_fields are as many as ctor_arity says, and
\* the i-th of them is the wildcard of the i-th visible field's type.
C7_ArityConsistent ==
    (pc = "probed" /\ probe.op = "arity" /\ probe.ctor.tag # "Or")
        => LET tys == VisibleFieldTys(probe.ctor, probe.ty)
           IN  /\ out.arity # ArityBug
               /\ out.arity = Len(out.fields)
               /\ Len(tys) = out.arity
               /\ \A i \in 1..Len(tys) : out.fields[i] = wildcard(tys[i])

\* A struct with two declared fields of which one is hidden.
C7_Witness ==
    /\ pc = "probed" /\ probe.op = "arity" /\ probe.ctor = Single
    /\ probe.ty.kind = "Adt" /\ ~probe.ty.is_enum /\ ~probe.ty.is_box
    /\ Len(probe.ty.variants[1].fields) = 2
    /\ out.arity = 1
    /\ out.fields = <<wildcard(BoolTy)>>

(***************************************************************************)
(* Probing lower_pat followed by hoist_witness_pat on one surface pattern  *)
(* without unevaluable constants, or-patterns or floats.                   *)
(***************************************************************************)
\* struct H { a: !, pub b: bool } with a private: a is hidden under
\* exhaustive_patterns.
HStruct ==
    StructTy("H", TRUE, VariantDef(<<FieldDef(NeverTy, FALSE), FieldDef(BoolTy, TRUE)>>))
\* struct H3 { pub a: bool, b: !, pub c: bool } with b private.
H3Struct ==
    StructTy("H3", TRUE, VariantDef(<<FieldDef(BoolTy, TRUE), FieldDef(NeverTy, FALSE),
                                      FieldDef(BoolTy, TRUE)>>))
\* An enum of another crate whose variant V(!, bool) is #[non_exhaustive].
HEnum ==
    EnumTy("HEnum", FALSE, FALSE,
           <<VariantDef(<<>>),
             [fields |-> <<FieldDef(NeverTy, TRUE), FieldDef(BoolTy, TRUE)>>,
              field_list_non_exhaustive |-> TRUE, unstable |-> FALSE,
              doc_hidden |-> FALSE]>>)
BoolArray == ArrayTy(BoolTy, Some(MaxSliceLen))

BoolLeaves ==
    {PWild(BoolTy), PTrue, PFalse, PBinding(BoolTy, None), PBinding(BoolTy, Some(PTrue)),
     PAscribe(BoolTy, PFalse)}
IntLeaves ==
    {PInt(U2, 0), PInt(I2, 3), PIncl(U8, 0, 9), PExcl(U8, 0, 10), PIncl(U8, 0, 255),
     PIncl(U2, 1, 1), PExcl(U2, 1, 2), PIncl(I2, 2, 1), PIncl(I2, 3, 0),
     PRange(U8, BdyFinite(Const(5)), BdyPosInfinity, "Included"),
     PRange(I2, BdyNegInfinity, BdyFinite(Const(0)), "Included"),
     PRange(USize, BdyFinite(Const(1)), BdyPosInfinity, "Included"),
     PRange(USize, BdyFinite(Const(0)), BdyFinite(Const(3)), "Included"),
     PInlineConstant(U2, PInt(U2, 2)), PWild(U8), PBinding(U8, None)}
FieldLists(n, leaves) ==
    {fs \in SeqsUpTo({FieldPat(f, l) : f \in 0..(n - 1), l \in leaves}, n) :
        \A i, j \in 1..Len(fs) : i # j => fs[i].field # fs[j].field}
\* Field lists that give field f one of leaves[f + 1], no field twice.
TypedFieldLists(leaves) ==
    {fs \in SeqsUpTo({FieldPat(f, l) : f \in 0..(Len(leaves) - 1),
                                       l \in UNION Range(leaves)}, Len(leaves)) :
        /\ \A i \in 1..Len(fs) : fs[i].pattern \in leaves[fs[i].field + 1]
        /\ \A i, j \in 1..Len(fs) : i # j => fs[i].field # fs[j].field}
SomeLeaves == {PWild(BoolTy), PTrue, PBinding(BoolTy, Some(PFalse))}
RestPats == {None, Some(PWild(BoolSlice)), Some(PBinding(BoolSlice, None))}

RoundTripPats ==
    BoolLeaves \cup IntLeaves
    \cup {PLeaf(Pair, fs) : fs \in FieldLists(2, SomeLeaves)}
    \cup {PLeaf(HStruct, fs) :
             fs \in TypedFieldLists(<<{PWild(NeverTy)}, {PWild(BoolTy), PTrue}>>)}
    \cup {PLeaf(H3Struct, fs) :
             fs \in TypedFieldLists(<<{PWild(BoolTy), PTrue}, {PWild(NeverTy)},
                                      {PWild(BoolTy), PTrue}>>)}
    \cup {PVariant(HEnum, 1, fs) :
             fs \in TypedFieldLists(<<{PWild(NeverTy), PNever(NeverTy)},
                                      {PWild(BoolTy), PFalse}>>)}
    \cup {PSome(I2, l) : l \in {PWild(I2), PInt(I2, 1), PIncl(I2, 0, 1), PExcl(I2, 0, 1)}}
    \cup {PNone(I2), PVariant(OptionTy(I2), 1, <<>>), PUnit(E3, 2), PUnit(ForeignNE, 1)}
    \cup {PDeref(RefTy(BoolTy), l) : l \in BoolLeaves}
    \cup {PDeref(BoxTy(BoolTy), l) : l \in SomeLeaves}
    \cup {PLeaf(BoxTy(BoolTy), <<FieldPat(0, PTrue)>>), PLeaf(BoxTy(BoolTy), <<>>),
          PConstant(RefTy(StrTy), Const(7)), PNever(NeverTy), PWild(NeverTy)}
    \cup {PSlice(BoolSlice, pre, rest, suf) :
             pre \in SeqsUpTo({PWild(BoolTy), PTrue}, 2), rest \in RestPats,
             suf \in SeqsUpTo({PWild(BoolTy), PFalse}, 1)}
    \cup {PArray(BoolArray, pre, rest, suf) :
             pre \in SeqsUpTo({PWild(BoolTy), PTrue}, 1), rest \in RestPats \ {None},
             suf \in SeqsUpTo({PWild(BoolTy), PFalse}, 1)}
    \cup {PArray(BoolArray, pre, None, <<>>) :
             pre \in {q \in SeqsUpTo({PWild(BoolTy), PTrue}, MaxSliceLen) :
                         Len(q) = MaxSliceLen}}

RoundTripProbe(pat) == [op |-> "roundtrip", pat |-> pat]

RoundTripInit ==
    /\ cx \in {[exhaustive_patterns |-> b] : b \in BOOLEAN}
    /\ probe \in {RoundTripProbe(p) : p \in RoundTripPats}
    /\ scrut_ty = probe.pat.ty
    /\ arms = <<>>
    /\ next_id = 0
    /\ rows = <<>>
    /\ report = NoReport
    /\ hoisted = <<>>
    /\ rerun = NoRun
    /\ out = NoProbe
    /\ stack = <<>>
    /\ ret = None
    /\ pc = "probe"

ProbeRoundTrip ==
    /\ pc = "probe"
    /\ probe.op = "roundtrip"
    /\ \E low \in {lower_pat_from(probe.pat, next_id)} :
           /\ out' = [op |-> "roundtrip",
                      lowered |-> low.pat,
                      hoisted |-> IF pat_has_bug(low.pat) THEN PBug
                                  ELSE hoist_witness_pat(low.pat)]
           /\ next_id' = low.next
    /\ pc' = "probed"
    /\ UNCHANGED <<cx, scrut_ty, arms, rows, report, hoisted, rerun, probe, stack, ret>>

RoundTripNext == ProbeRoundTrip

RoundTripSpec == RoundTripInit /\ [][RoundTripNext]_vars

\* Structural equivalence of two surface patterns: the same node kind, the
\* same variant, the same field indices with equivalent sub-patterns, the same
\* constant, the same range bounds, the same slice prefix / rest / suffix shape.
RECURSIVE StructEq(_, _)
StructEq(p, q) ==
    /\ p.kind = q.kind
    /\ CASE p.kind \in {"Leaf", "Variant"} ->
              /\ p.kind = "Variant" => p.variant_index = q.variant_index
              /\ Len(p.subpatterns) = Len(q.subpatterns)
              /\ \A i \in 1..Len(p.subpatterns) :
                    /\ p.subpatterns[i].field = q.subpatterns[i].field
                    /\ StructEq(p.subpatterns[i].pattern, q.subpatterns[i].pattern)
         [] p.kind = "Deref" -> StructEq(p.subpattern, q.subpattern)
         [] p.kind \in {"AscribeUserType", "InlineConstant"} ->
              StructEq(p.subpattern, q.subpattern)
         [] p.kind = "Binding" ->
              /\ is_some(p.subpattern) = is_some(q.subpattern)
              /\ is_some(p.subpattern) => StructEq(unwrap(p.subpattern), unwrap(q.subpattern))
         [] p.kind = "Constant" -> p.value = q.value
         [] p.kind = "Range" -> p.lo = q.lo /\ p.hi = q.hi /\ p.end = q.end
         [] p.kind \in {"Slice", "Array"} ->
              /\ Len(p.prefix) = Len(q.prefix) /\ Len(p.suffix) = Len(q.suffix)
              /\ is_some(p.slice) = is_some(q.slice)
              /\ \A i \in 1..Len(p.prefix) : StructEq(p.prefix[i], q.prefix[i])
              /\ \A i \in 1..Len(p.suffix) : StructEq(p.suffix[i], q.suffix[i])
         [] OTHER -> TRUE

RoundTripped == pc = "probed" /\ probe.op = "roundtrip"

\* C8 as stated: hoisting the lowering of a surface pattern without opaque
\* constants, or-patterns and float ranges gives back a structurally
\* equivalent pattern.
C8_RoundTripStructural == RoundTripped => StructEq(probe.pat, out.hoisted)

\* The patterns hoisting produces: wildcards; bool, integer and str constants;
\* inclusive ranges of more than one value; tuple, struct and variant patterns
\* that list every visible field in declaration order; Deref for references
\* and boxes; slice patterns of kind Slice with everything before the rest
\* marker in the prefix, a plain wildcard of the slice's type as rest marker
\* and, for an array of known length, no wildcard next to the rest marker.
RECURSIVE NormalForm(_)
NormalForm(p) ==
    CASE p.kind = "Wild" -> TRUE
      [] p.kind = "Constant" -> p.ty.kind \in {"Bool", "Char", "Int", "Uint", "Str"}
      [] p.kind = "Range" ->
            /\ p.end = "Included"
            /\ ~(p.lo.b = "Finite" /\ p.hi.b = "Finite" /\ p.lo.value = p.hi.value)
            /\ ~(p.lo.b = "NegInfinity" /\ p.hi.b = "PosInfinity")
      [] p.kind \in {"Leaf", "Variant"} /\ p.ty.kind = "Tuple" ->
            /\ Len(p.subpatterns) = Len(p.ty.fs)
            /\ \A i \in 1..Len(p.subpatterns) :
                  p.subpatterns[i].field = i - 1 /\ NormalForm(p.subpatterns[i].pattern)
      [] p.kind \in {"Leaf", "Variant"} /\ p.ty.kind = "Adt" /\ ~p.ty.is_box ->
            LET variant == p.ty.variants[IF p.kind = "Variant" THEN p.variant_index + 1
                                         ELSE 1]
                visible == {i \in 1..Len(variant.fields) :
                               ~FieldHidden(p.ty, variant, variant.fields[i])}
            IN  /\ (p.kind = "Variant") = p.ty.is_enum
                /\ {p.subpatterns[i].field + 1 : i \in 1..Len(p.subpatterns)} = visible
                /\ \A i \in 1..Len(p.subpatterns) :
                      /\ NormalForm(p.subpatterns[i].pattern)
                      /\ i > 1 => p.subpatterns[i - 1].field < p.subpatterns[i].field
      [] p.kind = "Deref" -> NormalForm(p.subpattern)
      [] p.kind = "Slice" ->
            /\ \A i \in 1..Len(p.prefix) : NormalForm(p.prefix[i])
            /\ \A i \in 1..Len(p.suffix) : NormalForm(p.suffix[i])
            /\ ~is_some(p.slice) => p.suffix = <<>>
            /\ is_some(p.slice) => unwrap(p.slice) = PWild(p.ty)
            /\ (is_some(p.slice) /\ p.ty.kind = "Array") =>
                  /\ p.prefix # <<>> => ~is_wildcard(p.prefix[Len(p.prefix)])
                  /\ p.suffix # <<>> => ~is_wildcard(p.suffix[1])
      [] OTHER -> FALSE

\* C8, amended: hoisting the lowering of such a pattern succeeds and gives a
\* pattern in the normal form of hoisting that matches the same values, and
\* gives back the pattern itself when it already is in that normal form.
C8_RoundTripNormalForm ==
    RoundTripped
        => /\ out.hoisted # PBug
           /\ NormalForm(out.hoisted)
           /\ NormalForm(probe.pat) => out.hoisted = probe.pat
           /\ \A v \in Values(probe.pat.ty) :
                 Matches(out.hoisted, v) <=> Matches(probe.pat, v)

\* A pattern in normal form came back unchanged, and one outside it did not:
\* the exclusive range 0..10 came back as 0..=9.
C8_Witness ==
    /\ RoundTripped
    /\ probe.pat = PExcl(U8, 0, 10)
    /\ out.hoisted = PIncl(U8, 0, 9)
    /\ ~NormalForm(probe.pat) /\ NormalForm(out.hoisted)

\* The rows handed to the engine are well-typed: every node has as many
\* fields as its constructor's arity at its type (an or-node has its
\* alternatives), and every field has the type of its place.
RECURSIVE WellTyped(_)
WellTyped(dp) ==
    IF dp.ctor.tag = "Or"
    THEN \A i \in 1..Len(dp.fields) : dp.fields[i].ty = dp.ty /\ WellTyped(dp.fields[i])
    ELSE LET tys == VisibleFieldTys(dp.ctor, dp.ty)
         IN  /\ Len(dp.fields) = Len(tys)
             /\ \A i \in 1..Len(tys) : dp.fields[i].ty = tys[i] /\ WellTyped(dp.fields[i])

RowsWellTyped == \A i \in 1..Len(rows) : rows[i].ty = scrut_ty /\ WellTyped(rows[i])

\* C9: once well-typed rows are handed to the usefulness algorithm -- over
\* pointer-sized integers and variable-length slices too, and with nested
\* or-patterns -- its activations come to an end: it returns, without
\* failing, a verdict for every arm, the one the recursive definition gives.
C9_ReturnsVerdict ==
    (pc = "lowered" /\ RowsWellTyped)
        ~> (/\ pc = "checked"
            /\ ~report.failed
            /\ Len(report.arm_usefulness) = Len(arms)
            /\ report = compute_match_usefulness(rows, scrut_ty))

\* A verdict over the unbounded lengths of a slice, from arms that leave
\* lengths uncovered.
C9_Witness ==
    /\ pc = "checked" /\ scrut_ty = BoolSlice /\ RowsWellTyped
    /\ Len(arms) = MaxStepArms /\ \A i \in 1..Len(arms) : is_some(arms[i].slice)
    /\ ~report.failed /\ ~report.exhaustive
    /\ Len(report.arm_usefulness) = Len(arms)

\* The opaque nodes of a pattern tree, in the order lowering mints them.
RECURSIVE OpaqueIds(_)
OpaqueIds(dp) ==
    (IF dp.ctor.tag = "Opaque" THEN <<dp.ctor.id>> ELSE <<>>)
        \o Concat([i \in 1..Len(dp.fields) |-> OpaqueIds(dp.fields[i])])

\* A witness with the identities of its opaque nodes erased.
RECURSIVE EraseIds(_)
EraseIds(w) ==
    [w EXCEPT !.ctor = IF @.tag = "Opaque" THEN Opaque(0) ELSE @,
              !.fields = [i \in 1..Len(@) |-> EraseIds(@[i])]]

Rechecked == pc = "rechecked"

OpaqueHead(i) == rows[i].ctor.tag = "Opaque"
ConcreteHead(i) == rows[i].ctor.tag \notin {"Opaque", "Wildcard", "Or"}

\* The rows without the opaque constants above arm j, and arm j's place there.
WithoutOpaquesAbove(j) ==
    SelectSeq([i \in 1..Len(rows) |-> [row |-> rows[i], keep |-> i >= j \/ ~OpaqueHead(i)]],
              LAMBDA e : e.keep)
PlaceWithoutOpaquesAbove(j) == j - Cardinality({i \in 1..(j - 1) : OpaqueHead(i)})

\* The verdict on arm j when the opaque constants above it are taken away.
UsefulWithoutOpaquesAbove(j) ==
    LET kept == WithoutOpaquesAbove(j)
    IN  compute_match_usefulness([i \in 1..Len(kept) |-> kept[i].row], scrut_ty)
            .arm_usefulness[PlaceWithoutOpaquesAbove(j)]

\* C11: opaque constants of distinct arms carry distinct ids and cover only
\* themselves; arms that are all opaque constants are never exhaustive; and
\* an arm that is an opaque constant or a concrete constructor gets the verdict
\* it would get without the opaque constants above it, so no opaque arm makes
\* it redundant.
C11_OpaqueCoversItself ==
    Checked
        => /\ \A i, j \in 1..Len(rows) :
                 (OpaqueHead(i) /\ OpaqueHead(j))
                    => /\ (rows[i].ctor.id = rows[j].ctor.id) <=> (i = j)
                       /\ is_covered_by(rows[i].ctor, rows[j].ctor) <=> (i = j)
           /\ \A i, j \in 1..Len(rows) :
                 (OpaqueHead(i) /\ ConcreteHead(j))
                    => ~is_covered_by(rows[j].ctor, rows[i].ctor)
           /\ (\A i \in 1..Len(rows) : OpaqueHead(i)) => ~report.exhaustive
           /\ \A j \in 1..Len(rows) :
                 ((OpaqueHead(j) \/ ConcreteHead(j)) /\ \E i \in 1..(j - 1) : OpaqueHead(i))
                    => /\ report.arm_usefulness[j] = UsefulWithoutOpaquesAbove(j)
                       /\ (\A i \in 1..(j - 1) : OpaqueHead(i)) => report.arm_usefulness[j]

\* The same constant of a type parameter in two arms: two opaque constants
\* with two ids, both useful, and the match not exhaustive.
C11_Witness ==
    /\ pc = "checked"
    /\ scrut_ty = ParamTy /\ Len(rows) = 2
    /\ OpaqueHead(1) /\ OpaqueHead(2)
    /\ arms[1] = arms[2]
    /\ report.arm_usefulness = <<TRUE, TRUE>> /\ ~report.exhaustive

\* The arm takes the values after MAX / before MIN that a pointer-sized
\* integer may hold on another target: a catch-all or an open-ended range.
RECURSIVE CoversAbove(_)
CoversAbove(p) ==
    CASE p.kind = "Range" -> p.hi.b = "PosInfinity"
      [] p.kind = "Or" -> \E i \in 1..Len(p.pats) : CoversAbove(p.pats[i])
      [] OTHER -> CatchAll(p)

RECURSIVE CoversBelow(_)
CoversBelow(p) ==
    CASE p.kind = "Range" -> p.lo.b = "NegInfinity"
      [] p.kind = "Or" -> \E i \in 1..Len(p.pats) : CoversBelow(p.pats[i])
      [] OTHER -> CatchAll(p)

FiniteValuesCovered == \A v \in Values(scrut_ty) : Covered(v)

\* C12: the constructor set of isize is NegInfinity..PosInfinity and that of
\* usize is Finite(0)..PosInfinity; a match on them is exhaustive exactly when
\* its arms cover every literal and, by an open end or a catch-all, what lies
\* after MAX (and, signed, before MIN); arms over the literals MIN..=MAX
\* alone are not exhaustive, and what they miss are the ranges beyond the
\* boundaries.
C12_PointerSizedIntegers ==
    (Checked /\ scrut_ty \in {USize, ISize})
        => /\ ctors_for_ty(scrut_ty)
                = CsIntegers([lo |-> IF scrut_ty.kind = "Int" THEN NegInfinity ELSE Finite(0),
                              hi |-> PosInfinity], None)
           /\ report.exhaustive
                <=> /\ FiniteValuesCovered
                    /\ \E i \in 1..Len(arms) : CoversAbove(arms[i])
                    /\ scrut_ty.kind = "Int" => \E i \in 1..Len(arms) : CoversBelow(arms[i])
           /\ (FiniteValuesCovered /\ ~report.exhaustive)
                => \A i \in 1..Len(report.non_exhaustiveness_witnesses) :
                      LET w == report.non_exhaustiveness_witnesses[i]
                      IN  /\ w.ctor.tag = "IntRange"
                          /\ is_range_beyond_boundaries(w.ctor.range, scrut_ty)

\* The one arm MIN..=MAX over isize: every literal is covered, the verdict
\* is "not exhaustive", and the two missing ranges lie beyond the boundaries.
C12_Witness ==
    /\ pc = "checked"
    /\ arms = <<PIncl(ISize, 2, 1)>>
    /\ FiniteValuesCovered
    /\ ~report.exhaustive
    /\ Len(report.non_exhaustiveness_witnesses) = 2

(***************************************************************************)
(* list_variant_nonhidden_fields on its own: a struct or an enum variant   *)
(* with up to MaxFields fields of either type, accessibility and locality, *)
(* seen with the exhaustive_patterns feature on and off.                   *)
(***************************************************************************)
FieldsProbe(ty, idx) == [op |-> "fields", ty |-> ty, variant_index |-> idx]

FieldsInit ==
    /\ cx \in {[exhaustive_patterns |-> b] : b \in BOOLEAN}
    /\ probe \in {FieldsProbe(ty, 0) : ty \in ProbeStructs}
                   \cup {FieldsProbe(ty, 1) : ty \in ProbeEnums}
    /\ scrut_ty = probe.ty
    /\ arms = <<>>
    /\ next_id = 0
    /\ rows = <<>>
    /\ report = NoReport
    /\ hoisted = <<>>
    /\ rerun = NoRun
    /\ out = NoProbe
    /\ stack = <<>>
    /\ ret = None
    /\ pc = "probe"

ProbeFields ==
    /\ pc = "probe"
    /\ probe.op = "fields"
    /\ out' = [op |-> "fields",
               kept |-> list_variant_nonhidden_fields(
                            probe.ty, probe.ty.variants[probe.variant_index + 1])]
    /\ pc' = "probed"
    /\ UNCHANGED <<cx, scrut_ty, arms, rows, report, hoisted, next_id, rerun, probe,
                   stack, ret>>

FieldsNext == ProbeFields

FieldsSpec == FieldsInit /\ [][FieldsNext]_vars

FieldsListed == pc = "probed" /\ probe.op = "fields"
ProbedVariant == probe.ty.variants[probe.variant_index + 1]

\* The declared fields as (FieldIdx, type) pairs, without those `Dropped`.
DeclaredWithout(Dropped(_)) ==
    LET fs == ProbedVariant.fields
        left == SelectSeq([i \in 1..Len(fs) |-> [i |-> i, f |-> fs[i]]],
                          LAMBDA e : ~Dropped(e.f))
    IN  [k \in 1..Len(left) |-> [field |-> left[k].i - 1, ty |-> left[k].f.ty]]

\* The rule without the feature: uninhabited, and inaccessible or of a
\* non_exhaustive field list of another crate.
HiddenWhateverTheFeature(f) ==
    /\ ~is_inhabited_from(f.ty)
    /\ ~f.vis \/ (ProbedVariant.field_list_non_exhaustive /\ ~probe.ty.is_local)

AdtRoundTripped ==
    /\ RoundTripped
    /\ probe.pat.kind \in {"Leaf", "Variant"}
    /\ probe.pat.ty.kind = "Adt" /\ ~probe.pat.ty.is_box
PatVariant ==
    probe.pat.ty.variants[IF probe.pat.kind = "Variant" THEN probe.pat.variant_index + 1
                          ELSE 1]

\* The declared indices (from 0) of the fields that are not hidden, in
\* increasing order: position k holds declared field VisibleIdxs[k].
VisibleIdxs ==
    LET fs == PatVariant.fields
    IN  SelectSeq([i \in 1..Len(fs) |-> i - 1],
                  LAMBDA f : ~FieldHidden(probe.pat.ty, PatVariant, fs[f + 1]))

\* The sub-patterns the surface pattern gives for declared field f.
Given(f) == SelectSeq(probe.pat.subpatterns, LAMBDA sp : sp.field = f)

\* C14: the lowered pattern of an ADT has one child per non-hidden field, in
\* declared order: at the position of declared field f the lowering of the
\* sub-pattern given for f, or the wildcard of f's type when none is given;
\* what is given for a hidden field is nowhere; and hoisting names the child
\* at each position by the declared field of that position.
C14_StableFieldPositions ==
    AdtRoundTripped
        => /\ Len(out.lowered.fields) = Len(VisibleIdxs)
           /\ \A k \in 1..Len(VisibleIdxs) :
                 LET f == VisibleIdxs[k]
                 IN  /\ \A l \in 1..(k - 1) : VisibleIdxs[l] < f
                     /\ out.lowered.fields[k].ty = PatVariant.fields[f + 1].ty
                     /\ out.lowered.fields[k]
                          = IF Given(f) = <<>> THEN wildcard(PatVariant.fields[f + 1].ty)
                            ELSE lower_pat_from(Given(f)[1].pattern, 0).pat
           /\ Len(out.hoisted.subpatterns) = Len(VisibleIdxs)
           /\ \A k \in 1..Len(VisibleIdxs) :
                 /\ out.hoisted.subpatterns[k].field = VisibleIdxs[k]
                 /\ out.hoisted.subpatterns[k].pattern
                      = hoist_witness_pat(out.lowered.fields[k])

\* H3 { c: true, b: _, .. } with b hidden: `true` for c sits at position 2,
\* a's wildcard at position 1, nothing of b; hoisting names them a and c.
C14_Witness ==
    /\ AdtRoundTripped
    /\ cx.exhaustive_patterns
    /\ probe.pat = PLeaf(H3Struct, <<FieldPat(2, PTrue), FieldPat(1, PWild(NeverTy))>>)
    /\ VisibleIdxs = <<0, 2>>
    /\ out.lowered.fields = <<wildcard(BoolTy), DeconstructedPat(Bool(TRUE), <<>>, BoolTy)>>
    /\ out.hoisted = PLeaf(H3Struct, <<FieldPat(0, PWild(BoolTy)), FieldPat(2, PTrue)>>)

(***************************************************************************)
(* Probing lower_pat alone, on surface patterns of every kind: the ones of *)
(* the round trip, and or-patterns nested directly and through wrappers,   *)
(* unevaluable constants, floats.                                          *)
(***************************************************************************)
POpaque == PConstant(BoolTy, Unevaluable)
OrLeaves == {PTrue, PFalse, PWild(BoolTy), POpaque}
OrWrappers(p) ==
    {PBinding(BoolTy, Some(p)), PAscribe(BoolTy, p), PInlineConstant(BoolTy, p)}
FlatOrs == {POr(BoolTy, <<a, b>>) : a, b \in OrLeaves}
SomeFlatOrs == {POr(BoolTy, <<PTrue, POpaque>>), POr(BoolTy, <<POpaque, PFalse>>)}
\* (a | b) | c, c | (a | b), and the same with the inner or-pattern wrapped.
NestedOrs ==
    UNION {{POr(BoolTy, <<o, c>>), POr(BoolTy, <<c, o>>)} :
              o \in SomeFlatOrs \cup UNION {OrWrappers(q) : q \in SomeFlatOrs},
              c \in OrLeaves}
\* ((a | b) | c) | d, and a wrapper on each level.
DeepOrs ==
    {POr(BoolTy, <<POr(BoolTy, <<o, POpaque>>), PTrue>>) : o \in SomeFlatOrs}
    \cup {POr(BoolTy, <<PBinding(BoolTy, Some(POr(BoolTy, <<w, PTrue>>))), POpaque>>) :
             w \in UNION {OrWrappers(q) : q \in SomeFlatOrs}}
    \cup {POr(BoolTy, <<PAscribe(BoolTy, PBinding(BoolTy, Some(o))), PFalse>>) :
             o \in SomeFlatOrs}
OrPats == FlatOrs \cup NestedOrs \cup DeepOrs

LowerPats ==
    RoundTripPats \cup OrPats
    \cup {PLeaf(Pair, <<FieldPat(1, o)>>) : o \in SomeFlatOrs}
    \cup {POpaque, PConstant(FloatTy(32), Const(3)), PConstant(FloatTy(64), Unevaluable),
          PConstant(U8, Unevaluable), PError(BoolTy),
          PRange(FloatTy(32), BdyFinite(Const(1)), BdyPosInfinity, "Excluded")}

LowerProbe(pat) == [op |-> "lower", pat |-> pat]

LowerInit ==
    /\ cx \in {[exhaustive_patterns |-> b] : b \in BOOLEAN}
    /\ probe \in {LowerProbe(p) : p \in LowerPats}
    /\ scrut_ty = probe.pat.ty
    /\ arms = <<>>
    /\ next_id = 0
    /\ rows = <<>>
    /\ report = NoReport
    /\ hoisted = <<>>
    /\ rerun = NoRun
    /\ out = NoProbe
    /\ stack = <<>>
    /\ ret = None
    /\ pc = "probe"

ProbeLower ==
    /\ pc = "probe"
    /\ probe.op = "lower"
    /\ \E low \in {lower_pat(probe.pat, next_id)} :
           /\ out' = [op |-> "lower", lowered |-> low.pat]
           /\ next_id' = low.next
    /\ pc' = "probed"
    /\ UNCHANGED <<cx, scrut_ty, arms, rows, report, hoisted, rerun, probe, stack, ret>>

LowerNext == ProbeLower

LowerSpec == LowerInit /\ [][LowerNext]_vars

LoweredProbe == pc = "probed" /\ probe.op = "lower"

RECURSIVE Unwrapped(_)
\* The pattern under its bindings, type ascriptions and inline-constant
\* wrappers.
Unwrapped(pat) ==
    CASE pat.kind \in {"AscribeUserType", "InlineConstant"} -> Unwrapped(pat.subpattern)
      [] pat.kind = "Binding" /\ is_some(pat.subpattern) -> Unwrapped(unwrap(pat.subpattern))
      [] OTHER -> pat

\* The children a surface pattern that is not an or-pattern calls for.
SurfaceChildren(pat) ==
    CASE pat.kind \in {"Wild", "Binding", "Range", "Never", "Error"} -> 0
      [] pat.kind = "Constant" ->
            IF pat.ty.kind = "Ref" /\ pat.ty.rty.kind = "Str" THEN 1 ELSE 0
      [] pat.kind = "Deref" -> 1
      [] pat.kind \in {"Leaf", "Variant"} /\ pat.ty.kind = "Tuple" -> Len(pat.ty.fs)
      [] pat.kind \in {"Leaf", "Variant"} /\ pat.ty.is_box -> 1
      [] pat.kind \in {"Leaf", "Variant"} ->
            LET variant == pat.ty.variants[IF pat.kind = "Variant"
                                           THEN pat.variant_index + 1 ELSE 1]
            IN  Cardinality({f \in 1..Len(variant.fields) :
                                ~FieldHidden(pat.ty, variant, variant.fields[f])})
      [] pat.kind \in {"Slice", "Array"} -> Len(pat.prefix) + Len(pat.suffix)

RECURSIVE ArityOk(_)
ArityOk(dp) ==
    /\ dp.ctor.tag # "Or" => Len(dp.fields) = ctor_arity(dp.ctor, dp.ty)
    /\ \A i \in 1..Len(dp.fields) : ArityOk(dp.fields[i])

\* C15: lowering does not fail on these patterns, every node of the tree it
\* returns that is not an Or node has exactly ctor_arity(constructor, type)
\* children, and the root has the number of children its surface pattern
\* calls for: none for wildcards, constants, ranges and opaque constants, one
\* for deref, box and string constants, the field count for tuples, the
\* visible-field count for structs and variants, prefix + suffix for slices.
C15_LoweredArity ==
    LoweredProbe
        => /\ ~pat_has_bug(out.lowered)
           /\ ArityOk(out.lowered)
           /\ out.lowered.ctor.tag # "Or"
                 => Len(out.lowered.fields) = SurfaceChildren(Unwrapped(probe.pat))

\* H3 { c: true, .. } under exhaustive_patterns: two children for three
\* declared fields.
C15_Witness ==
    /\ LoweredProbe
    /\ cx.exhaustive_patterns
    /\ probe.pat = PLeaf(H3Struct, <<FieldPat(2, PTrue)>>)
    /\ Len(out.lowered.fields) = 2
    /\ ctor_arity(out.lowered.ctor, H3Struct) = 2

RECURSIVE DirectAlternatives(_)
\* The alternatives of an or-pattern, or-patterns that are themselves
\* alternatives replaced by theirs.
DirectAlternatives(pat) ==
    IF pat.kind = "Or"
    THEN Concat([i \in 1..Len(pat.pats) |-> DirectAlternatives(pat.pats[i])])
    ELSE <<pat>>

RECURSIVE AllAlternatives(_)
\* The same, looking through wrappers too.
AllAlternatives(pat) ==
    IF Unwrapped(pat).kind = "Or"
    THEN Concat([i \in 1..Len(Unwrapped(pat).pats) |->
                    AllAlternatives(Unwrapped(pat).pats[i])])
    ELSE <<pat>>

RECURSIVE NoOrUnderOr(_)
NoOrUnderOr(dp) ==
    /\ dp.ctor.tag = "Or" => \A i \in 1..Len(dp.fields) : dp.fields[i].ctor.tag # "Or"
    /\ \A i \in 1..Len(dp.fields) : NoOrUnderOr(dp.fields[i])

LoweredOr == LoweredProbe /\ probe.pat.kind = "Or"

\* C16, as claimed: a surface or-pattern lowers to one Or node whose children
\* are the lowered non-or alternatives in source order, alternatives nested
\* under or-patterns and under wrappers included, and no Or node has an Or
\* node as a direct child.
C16_OrFlattening ==
    LoweredOr
        => /\ out.lowered.ctor = Or
           /\ out.lowered.fields = lower_pats_from(AllAlternatives(probe.pat), 0).pats
           /\ NoOrUnderOr(out.lowered)

\* C16, amended: a surface or-pattern lowers to one Or node whose children are
\* the lowered alternatives in source order, or-patterns that are themselves
\* alternatives replaced by their alternatives.  A child is an Or node
\* exactly when its alternative is an or-pattern inside a binding, type
\* ascription or inline-constant wrapper, and then it is that or-pattern
\* lowered.  The usefulness algorithm takes such a tree: as the only arm of a
\* match on bool it is exhaustive exactly when its innermost alternatives
\* are.
C16_OrFlatteningDirect ==
    LoweredOr
        => LET alts == DirectAlternatives(probe.pat)
           IN  /\ out.lowered.ctor = Or
               /\ out.lowered.ty = probe.pat.ty
               /\ out.lowered.fields = lower_pats_from(alts, 0).pats
               /\ Len(out.lowered.fields) = Len(alts)
               /\ \A k \in 1..Len(alts) :
                     /\ alts[k].kind # "Or"
                     /\ out.lowered.fields[k].ctor.tag = "Or"
                           <=> Unwrapped(alts[k]).kind = "Or"
                     /\ \A l \in 1..(k - 1) :
                           (alts[l] = POpaque /\ alts[k] = POpaque)
                              => out.lowered.fields[l].ctor.id
                                   < out.lowered.fields[k].ctor.id
               /\ LET verdict == compute_match_usefulness(<<out.lowered>>, probe.pat.ty)
                       leaves == Range(AllAlternatives(probe.pat))
                   IN  /\ ~verdict.failed
                       /\ verdict.arm_usefulness = <<TRUE>>
                       /\ verdict.exhaustive
                             <=> \/ PWild(BoolTy) \in leaves
                                 \/ {PTrue, PFalse} \subseteq leaves

\* (true | CONST) | CONST gives three children in source order; with the
\* inner or-pattern bound to a name it gives two, the first an Or node.
C16_Witness ==
    /\ LoweredOr
    /\ probe.pat = POr(BoolTy, <<PBinding(BoolTy, Some(POr(BoolTy, <<PTrue, POpaque>>))),
                                 POpaque>>)
    /\ out.lowered
         = DeconstructedPat(Or,
              <<DeconstructedPat(Or, <<DeconstructedPat(Bool(TRUE), <<>>, BoolTy),
                                       DeconstructedPat(Opaque(0), <<>>, BoolTy)>>, BoolTy),
                DeconstructedPat(Opaque(1), <<>>, BoolTy)>>, BoolTy)


(***************************************************************************)
(* Probing hoist_witness_pat alone, on witness trees with the synthetic    *)
(* constructors at the root and below tuples, references, enum variants    *)
(* and slices, and on slice witnesses of known and unknown length.         *)
(***************************************************************************)
Markers == {Wildcard, NonExhaustive, Hidden, Missing}
MarkerLeaves(ty) == {DeconstructedPat(m, <<>>, ty) : m \in Markers}
BoolNode(b) == DeconstructedPat(Bool(b), <<>>, BoolTy)
MarkerWits ==
    UNION {MarkerLeaves(ty) : ty \in {BoolTy, U8, Pair, BoolSlice, E3, NeverTy}}
    \cup {DeconstructedPat(Single, <<a, b>>, Pair) :
             a, b \in MarkerLeaves(BoolTy) \cup {BoolNode(TRUE)}}
    \cup {DeconstructedPat(Single, <<a>>, RefTy(BoolTy)) : a \in MarkerLeaves(BoolTy)}
    \cup {DeconstructedPat(Variant(1), <<a>>, OptionTy(I2)) : a \in MarkerLeaves(I2)}
    \cup {DeconstructedPat(Single, <<DeconstructedPat(Single, <<a, BoolNode(FALSE)>>, Pair)>>,
                           RefTy(Pair)) : a \in MarkerLeaves(BoolTy)}
    \cup {DeconstructedPat(Slice(slice_new(None, VarLen(1, 1))), <<a, b>>, BoolSlice) :
             a, b \in MarkerLeaves(BoolTy)}

SliceElems == {wildcard(BoolTy), BoolNode(TRUE), DeconstructedPat(Hidden, <<>>, BoolTy)}
UnsizedArray == ArrayTy(BoolTy, None)
\* Slice::new turns a VarLen that fills a known length into FixedLen, and
\* a FixedLen of an array has its length.
SliceKinds(ty, n) ==
    IF ty.kind = "Array" /\ is_some(ty.len)
    THEN {VarLen(p, n - p) : p \in {q \in 0..n : n < unwrap(ty.len)}}
         \cup {FixedLen(m) : m \in {n} \cap {unwrap(ty.len)}}
    ELSE {VarLen(p, n - p) : p \in 0..n} \cup {FixedLen(n)}
SliceWits ==
    UNION {{DeconstructedPat(Slice(slice_new(IF ty.kind = "Array" THEN ty.len ELSE None, k)),
                             fs, ty) : k \in SliceKinds(ty, Len(fs))} :
              ty \in {BoolSlice, BoolArray, UnsizedArray},
              fs \in SeqsUpTo(SliceElems, MaxSliceLen)}

HoistProbe(family, wit) == [op |-> "hoist", family |-> family, wit |-> wit]

HoistInit ==
    /\ cx \in {[exhaustive_patterns |-> b] : b \in BOOLEAN}
    /\ probe \in {HoistProbe("markers", w) : w \in MarkerWits}
                    \cup {HoistProbe("slices", w) : w \in SliceWits}
    /\ scrut_ty = probe.wit.ty
    /\ arms = <<>>
    /\ next_id = 0
    /\ rows = <<>>
    /\ report = NoReport
    /\ hoisted = <<>>
    /\ rerun = NoRun
    /\ out = NoProbe
    /\ stack = <<>>
    /\ ret = None
    /\ pc = "probe"

ProbeHoist ==
    /\ pc = "probe"
    /\ probe.op = "hoist"
    /\ out' = [op |-> "hoist", pattern |-> hoist_witness_pat(probe.wit)]
    /\ pc' = "probed"
    /\ UNCHANGED <<cx, scrut_ty, arms, rows, report, hoisted, next_id, rerun, probe,
                   stack, ret>>

HoistNext == ProbeHoist

HoistSpec == HoistInit /\ [][HoistNext]_vars

HoistedMarkers == pc = "probed" /\ probe.op = "hoist" /\ probe.family = "markers"

RECURSIVE HasCtor(_, _)
HasCtor(w, tags) ==
    \/ w.ctor.tag \in tags
    \/ \E i \in 1..Len(w.fields) : HasCtor(w.fields[i], tags)

\* The sub-patterns of a hoisted pattern, in order.
SubPats(p) ==
    CASE p.kind \in {"Leaf", "Variant"} ->
            [i \in 1..Len(p.subpatterns) |-> p.subpatterns[i].pattern]
      [] p.kind = "Deref" -> <<p.subpattern>>
      [] p.kind = "Slice" -> p.prefix \o p.suffix
      [] OTHER -> <<>>

RECURSIVE MarkersWild(_, _, _)
\* Wherever w has one of the constructors `tags`, p has the wildcard of
\* that node's type.
MarkersWild(w, p, tags) ==
    IF w.ctor.tag \in tags THEN p = PWild(w.ty)
    ELSE /\ Len(SubPats(p)) = Len(w.fields)
         /\ \A i \in 1..Len(w.fields) : MarkersWild(w.fields[i], SubPats(p)[i], tags)

\* C17, as claimed: a witness whose constructor is Missing, NonExhaustive,
\* Hidden or Wildcard hoists to the wildcard of its type, at the root and at
\* any position below, and hoisting does not fail.
C17_MarkersHoistToWildcard ==
    HoistedMarkers
        => /\ out.pattern # PBug
           /\ MarkersWild(probe.wit, out.pattern,
                          {"Wildcard", "NonExhaustive", "Hidden", "Missing"})

\* C17, amended: a witness whose constructor is NonExhaustive, Hidden or
\* Wildcard hoists to the wildcard of its type, at the root and at any
\* position below, and hoisting a tree with no other synthetic constructor
\* does not fail; hoisting a tree with a Missing node anywhere fails.
C17_MarkersHoistExceptMissing ==
    HoistedMarkers
        => IF HasCtor(probe.wit, {"Missing"}) THEN out.pattern = PBug
           ELSE /\ out.pattern # PBug
                /\ MarkersWild(probe.wit, out.pattern,
                               {"Wildcard", "NonExhaustive", "Hidden"})

\* &(Hidden, false) hoists to &(_, false).
C17_Witness ==
    /\ HoistedMarkers
    /\ probe.wit
         = DeconstructedPat(Single,
              <<DeconstructedPat(Single, <<DeconstructedPat(Hidden, <<>>, BoolTy),
                                           BoolNode(FALSE)>>, Pair)>>, RefTy(Pair))
    /\ out.pattern
         = PDeref(RefTy(Pair),
                  PLeaf(Pair, <<FieldPat(0, PWild(BoolTy)), FieldPat(1, PFalse)>>))

HoistedSlice == pc = "probed" /\ probe.op = "hoist" /\ probe.family = "slices"

\* The children of the probed slice witness, each hoisted.
HoistedElems == [i \in 1..Len(probe.wit.fields) |-> hoist_witness_pat(probe.wit.fields[i])]

\* ps without qs at its end / at its front is a run of wildcards, and what
\* is left does not end / start with one.
TrailingRunRemoved(ps, qs) ==
    /\ Len(qs) <= Len(ps) /\ qs = SubSeq(ps, 1, Len(qs))
    /\ \A i \in (Len(qs) + 1)..Len(ps) : ps[i].kind = "Wild"
    /\ qs # <<>> => qs[Len(qs)].kind # "Wild"
LeadingRunRemoved(ps, qs) ==
    /\ Len(qs) <= Len(ps) /\ qs = SubSeq(ps, Len(ps) - Len(qs) + 1, Len(ps))
    /\ \A i \in 1..(Len(ps) - Len(qs)) : ps[i].kind = "Wild"
    /\ qs # <<>> => qs[1].kind # "Wild"

\* C18: a variable-length slice witness hoists to a slice pattern with a rest
\* marker; of its prefix the trailing run of wildcards and of its suffix the
\* leading run are removed exactly when the array length is known, and with
\* an unknown length every child is kept, so that the pattern stands for the
\* lengths from prefix_len + suffix_len on.  A fixed-length slice witness
\* hoists to a slice pattern with no rest marker and all its children.
C18_SliceWitnessHoisting ==
    HoistedSlice
        => LET slice == probe.wit.ctor.slice
               pre == SubSeq(HoistedElems, 1, slice.kind.p)
               suf == SubSeq(HoistedElems, slice.kind.p + 1, Len(HoistedElems))
           IN  /\ out.pattern.kind = "Slice" /\ out.pattern.ty = probe.wit.ty
               /\ slice.kind.k = "FixedLen"
                     => /\ out.pattern.slice = None
                        /\ out.pattern.prefix \o out.pattern.suffix = HoistedElems
                        /\ Len(HoistedElems) = slice.kind.n
               /\ slice.kind.k = "VarLen"
                     => /\ out.pattern.slice = Some(PWild(probe.wit.ty))
                        /\ IF is_some(slice.array_len)
                           THEN /\ TrailingRunRemoved(pre, out.pattern.prefix)
                                /\ LeadingRunRemoved(suf, out.pattern.suffix)
                           ELSE /\ out.pattern.prefix = pre
                                /\ out.pattern.suffix = suf
                                /\ Len(out.pattern.prefix) + Len(out.pattern.suffix)
                                     = slice.kind.p + slice.kind.s

\* [true, _, ..] over an array of known length hoists to [true, ..]; over a
\* slice the same witness keeps the wildcard.
C18_Witness ==
    /\ HoistedSlice
    /\ probe.wit = DeconstructedPat(Slice(slice_new(Some(MaxSliceLen), VarLen(2, 0))),
                                    <<BoolNode(TRUE), wildcard(BoolTy)>>, BoolArray)
    /\ out.pattern = PSlice(BoolArray, <<PTrue>>, Some(PWild(BoolArray)), <<>>)
    /\ hoist_witness_pat(DeconstructedPat(Slice(slice_new(None, VarLen(2, 0))),
                                          probe.wit.fields, BoolSlice))
         = PSlice(BoolSlice, <<PTrue, PWild(BoolTy)>>, Some(PWild(BoolSlice)), <<>>)

(***************************************************************************)
(* Probing ctors_for_ty on one type: enums with up to MaxVariants variants *)
(* that are inhabited or not, unstable, doc(hidden), with non_exhaustive   *)
(* field lists, local and foreign, non_exhaustive or not; structs, tuples, *)
(* references, boxes, the never type and the other kinds of type.          *)
(***************************************************************************)
MaxVariants == 2

CtorVariantDefs ==
    {[fields |-> fs, field_list_non_exhaustive |-> ne, unstable |-> u, doc_hidden |-> d] :
        fs \in {<<>>, <<FieldDef(NeverTy, TRUE)>>}, ne \in BOOLEAN, u \in BOOLEAN,
        d \in BOOLEAN}
CtorEnums ==
    {EnumTy("En", local, nonexh, vs) :
        local \in BOOLEAN, nonexh \in BOOLEAN, vs \in SeqsUpTo(CtorVariantDefs, MaxVariants)}
CtorTys ==
    CtorEnums \cup ProbeStructs
    \cup {NeverTy, BoolTy, CharTy, U8, I2, USize, ISize, FloatTy(32), StrTy, ParamTy,
          TupleTy(<<>>), Pair, TupleTy(<<BoolTy, NeverTy>>), TupleTy(<<E3, Pair>>),
          RefTy(BoolTy), RefTy(NeverTy), RefTy(TupleTy(<<NeverTy>>)),
          BoxTy(BoolTy), BoxTy(NeverTy),
          BoolSlice, SliceTy(NeverTy), BoolArray, ArrayTy(NeverTy, None)}

CtorsProbe(ty) == [op |-> "ctors", ty |-> ty]

CtorsInit ==
    /\ cx \in {[exhaustive_patterns |-> b] : b \in BOOLEAN}
    /\ probe \in {CtorsProbe(ty) : ty \in CtorTys}
    /\ scrut_ty = probe.ty
    /\ arms = <<>>
    /\ next_id = 0
    /\ rows = <<>>
    /\ report = NoReport
    /\ hoisted = <<>>
    /\ rerun = NoRun
    /\ out = NoProbe
    /\ stack = <<>>
    /\ ret = None
    /\ pc = "probe"

ProbeCtors ==
    /\ pc = "probe"
    /\ probe.op = "ctors"
    /\ out' = [op |-> "ctors", set |-> ctors_for_ty(probe.ty)]
    /\ pc' = "probed"
    /\ UNCHANGED <<cx, scrut_ty, arms, rows, report, hoisted, next_id, rerun, probe,
                   stack, ret>>

CtorsNext == ProbeCtors

CtorsSpec == CtorsInit /\ [][CtorsNext]_vars

CtorsProbed == pc = "probed" /\ probe.op = "ctors"
IsEnum(ty) == ty.kind = "Adt" /\ ty.is_enum
\* Declared #[non_exhaustive] in another crate.
ForeignExtensible(ty) == ty.non_exhaustive /\ ~ty.is_local
ZeroVariantClosed(ty) == IsEnum(ty) /\ Len(ty.variants) = 0 /\ ~ForeignExtensible(ty)

\* C19: for an enum that is not both without variants and closed,
\* ctors_for_ty returns Variants with one tag per declared variant: Empty
\* when the variant is uninhabited from the module, whether or not it is also
\* unstable or doc(hidden); otherwise Hidden when it is unstable, or
\* doc(hidden) and foreign; otherwise Visible.  The non_exhaustive flag is
\* set exactly for enums declared non_exhaustive in another crate.
C19_EnumConstructorSet ==
    (CtorsProbed /\ IsEnum(probe.ty) /\ ~ZeroVariantClosed(probe.ty))
        => /\ out.set.set = "Variants"
           /\ Len(out.set.variants) = Len(probe.ty.variants)
           /\ \A i \in 1..Len(probe.ty.variants) :
                 LET v == probe.ty.variants[i]
                 IN  out.set.variants[i]
                       = IF ~variant_is_inhabited(probe.ty, v) THEN "Empty"
                         ELSE IF v.unstable \/ (v.doc_hidden /\ ~probe.ty.is_local)
                              THEN "Hidden"
                         ELSE "Visible"
           /\ out.set.non_exhaustive <=> ForeignExtensible(probe.ty)

\* A foreign non_exhaustive enum whose first variant is uninhabited and
\* unstable and whose second is doc(hidden).
C19_Witness ==
    /\ CtorsProbed /\ IsEnum(probe.ty) /\ ~probe.ty.is_local /\ probe.ty.non_exhaustive
    /\ Len(probe.ty.variants) = 2
    /\ probe.ty.variants[1].fields = <<FieldDef(NeverTy, TRUE)>>
    /\ probe.ty.variants[1].unstable /\ ~probe.ty.variants[1].field_list_non_exhaustive
    /\ probe.ty.variants[2].fields = <<>>
    /\ probe.ty.variants[2].doc_hidden /\ ~probe.ty.variants[2].unstable
    /\ out.set = CsVariants(<<"Empty", "Hidden">>, TRUE)

\* C20: ctors_for_ty returns NoConstructors exactly for the never type and
\* for enums without variants that are not declared non_exhaustive in another
\* crate; an enum without variants that is, gets Variants with no variant and
\* non_exhaustive set; a struct, tuple or reference gets Single, with empty
\* set exactly when the type is uninhabited, never NoConstructors.
C20_NoConstructors ==
    CtorsProbed
        => /\ out.set = CsNoConstructors
                 <=> (probe.ty.kind = "Never" \/ ZeroVariantClosed(probe.ty))
           /\ (IsEnum(probe.ty) /\ Len(probe.ty.variants) = 0 /\ ForeignExtensible(probe.ty))
                 => out.set = CsVariants(<<>>, TRUE)
           /\ (probe.ty.kind \in {"Tuple", "Ref"} \/ (probe.ty.kind = "Adt" /\ ~probe.ty.is_enum))
                 => out.set = CsSingle(~is_inhabited_from(probe.ty))

\* enum En {} of another crate, #[non_exhaustive].
C20_Witness ==
    /\ CtorsProbed
    /\ probe.ty = EnumTy("En", FALSE, TRUE, <<>>)
    /\ out.set = CsVariants(<<>>, TRUE)
    /\ ctors_for_ty(EnumTy("En", TRUE, TRUE, <<>>)) = CsNoConstructors
    /\ ctors_for_ty(TupleTy(<<BoolTy, NeverTy>>)) = CsSingle(TRUE)

(***************************************************************************)
(* The recursion of the stepwise engine: what a specialization step does   *)
(* to the width of the matrix, and what decreases along the call stack.    *)
(***************************************************************************)
\* A Specialize step: the innermost activation builds the matrix
\* specialized by its next constructor.
SpecializeStep ==
    /\ pc = "running" /\ ret = None /\ stack # <<>>
    /\ stack' # stack /\ Len(stack') >= Len(stack)

\* The constructor specialized by, the matrix it gives and its width.
SplitCtor == top_frame.ctors[top_frame.k]
SpecializedMatrix == stack'[Len(stack)].spec_matrix
SpecializedWidth ==
    IF Len(stack') > Len(stack) THEN Len(stack'[Len(stack')].tys) ELSE 0

RECURSIVE PatHeight(_)
\* The height of a pattern: a wildcard has none, an or-pattern that of its
\* tallest alternative, any other node one more than its tallest field.
PatHeight(p) ==
    LET below == {PatHeight(p.fields[i]) : i \in 1..Len(p.fields)} \cup {0}
        tallest == CHOOSE h \in below : \A g \in below : g <= h
    IN  IF p.ctor.tag = "Wildcard" THEN 0
        ELSE IF p.ctor.tag = "Or" THEN tallest
        ELSE 1 + tallest

ColumnHeight(matrix, j) ==
    LET hs == {PatHeight(matrix[i].pats[j]) : i \in 1..Len(matrix)} \cup {0}
    IN  CHOOSE h \in hs : \A g \in hs : g <= h

\* No constructor of these matches has more fields.
ArityBound == MaxSliceLen + 1

RECURSIVE Potential(_, _, _)
\* The sum over the columns j..width of (ArityBound + 1) ^ height.
Potential(matrix, j, width) ==
    IF j > width THEN 0
    ELSE (ArityBound + 1) ^ ColumnHeight(matrix, j) + Potential(matrix, j + 1, width)

\* C21, as claimed: the matrix specialized by any split constructor has a
\* smaller total column width than the matrix it comes from.
C21_WidthDecreases ==
    [][SpecializeStep => SpecializedWidth < Len(top_frame.tys)]_vars

\* C21, amended: the matrix specialized by a split constructor c has the
\* width of the matrix it comes from less one plus the arity of c, in every
\* row -- smaller only when c has no fields.  What decreases in every step
\* is the sum, over the columns, of (ArityBound + 1) ^ (height of the
\* tallest pattern of the column).
C21_PotentialDecreases ==
    [][SpecializeStep
         => /\ ctor_arity(SplitCtor, top_frame.tys[1]) \in 0..ArityBound
            /\ SpecializedWidth
                 = Len(top_frame.tys) - 1 + ctor_arity(SplitCtor, top_frame.tys[1])
            /\ \A i \in 1..Len(SpecializedMatrix) :
                  Len(SpecializedMatrix[i].pats) = SpecializedWidth
            /\ Potential(SpecializedMatrix, 1, SpecializedWidth)
                 < Potential(top_frame.matrix, 1, Len(top_frame.tys))]_vars

\* The one column of a match on (bool, bool) specialized by the tuple
\* constructor: two columns.
C21_Witness ==
    /\ pc = "running" /\ scrut_ty = Pair /\ Len(stack) = 2
    /\ stack[1].ctors[stack[1].k] = Single
    /\ Len(stack[1].tys) = 1 /\ Len(stack[2].tys) = 2
    /\ stack[2].matrix # <<>>
    /\ Potential(stack[2].matrix, 1, 2) < Potential(stack[1].matrix, 1, 1)

\* The innermost activation has just specialized its one column by a
\* constructor without fields: the matrix it holds in spec_matrix has no
\* columns, and ret is the verdict on it.
ZeroColumnVerdict ==
    /\ pc = "running" /\ is_some(ret) /\ stack # <<>>
    /\ top_frame.k <= Len(top_frame.ctors)
    /\ Len(top_frame.tys) = 1
    /\ VisibleFieldTys(top_frame.ctors[top_frame.k], top_frame.tys[1]) = <<>>

\* C22: a matrix all of whose rows have no columns is reported to cover
\* everything exactly when it has a row (and otherwise yields the one empty
\* witness), and of its rows the first is reported useful and no other.
C22_ZeroColumnBase ==
    ZeroColumnVerdict
        => LET matrix == top_frame.spec_matrix
               verdict == unwrap(ret)
           IN  /\ \A i \in 1..Len(matrix) : matrix[i].pats = <<>>
               /\ ~verdict.failed
               /\ verdict.exhaustive <=> Len(matrix) >= 1
               /\ verdict.witnesses = IF Len(matrix) >= 1 THEN <<>> ELSE <<<<>>>>
               /\ Len(verdict.useful) = Len(matrix)
               /\ \A i \in 1..Len(matrix) : verdict.useful[i] <=> i = 1

\* The same variant in both arms: the matrix specialized by it has two rows
\* without columns, of which the second is not useful.
C22_Witness ==
    /\ ZeroColumnVerdict
    /\ scrut_ty = E3
    /\ Len(top_frame.spec_matrix) = 2
    /\ unwrap(ret).useful = <<TRUE, FALSE>>
    /\ unwrap(ret).exhaustive

\* The first cells of the rows of a matrix.
Heads(matrix) == {matrix[i].pats[1].ctor : i \in {j \in 1..Len(matrix) : matrix[j].pats # <<>>}}

\* The constructors an activation hands to ctor_arity and
\* ctor_wildcard_fields: those it specializes by and the missing ones it
\* builds witnesses from.
CtorsAskedAbout(f) == Range(f.ctors) \cup Range(f.split_set.missing)

\* C23: in every matrix the algorithm splits or specializes, no row's first
\* cell is an Or node -- rows headed by an or-pattern have been replaced by
\* one row per alternative -- so ctor_arity and ctor_wildcard_fields are
\* never asked about Or during a check; asked about Or, both fail instead of
\* returning a value.
C23_OrNeverHead ==
    (pc = "running")
        => \A d \in 1..Len(stack) :
              /\ Or \notin Heads(stack[d].matrix)
              /\ Or \notin Heads(stack[d].spec_matrix)
              /\ Or \notin CtorsAskedAbout(stack[d])
              /\ ctor_arity(Or, stack[d].tys[1]) = ArityBug
              /\ ctor_wildcard_fields(Or, stack[d].tys[1]) = FieldsBug
              /\ \A c \in CtorsAskedAbout(stack[d]) :
                    /\ ctor_arity(c, stack[d].tys[1]) # ArityBug
                    /\ ctor_wildcard_fields(c, stack[d].tys[1]) # FieldsBug

\* (false | x @ (true | false), true): the column of the first field holds
\* three rows, one per innermost alternative.
C23_Witness ==
    /\ pc = "running" /\ scrut_ty = Pair /\ Len(arms) = 1 /\ Len(stack) = 2
    /\ rows[1].fields[1].ctor = Or
    /\ \E i \in 1..Len(rows[1].fields[1].fields) : rows[1].fields[1].fields[i].ctor = Or
    /\ Len(stack[1].matrix) = 1
    /\ [i \in 1..Len(stack[2].matrix) |-> stack[2].matrix[i].pats[1].ctor]
         = <<Bool(FALSE), Bool(TRUE), Bool(FALSE)>>

(***************************************************************************)
(* Probing the integer ranges of one column: the constructor set of an     *)
(* integer type, the ranges its constant and range patterns lower to, the  *)
(* ranges the set is split into by them, and each of those hoisted.        *)
(***************************************************************************)
MaxIntBits == 3

FixedIntTys == {UintTy(n) : n \in 1..MaxIntBits} \cup {IntTy(n) : n \in 1..MaxIntBits}
PtrIntTys == {USize, ISize}

\* The bits of the least and the greatest value of an integer type.
MinBits(ty) == IF ty.kind = "Int" THEN Pow2(ty.bits - 1) ELSE 0
MaxBits(ty) == IF ty.kind = "Int" THEN Pow2(ty.bits - 1) - 1 ELSE Pow2(ty.bits) - 1

PatBdys(ty) ==
    {BdyNegInfinity, BdyPosInfinity} \cup {BdyFinite(Const(v)) : v \in 0..(Pow2(ty.bits) - 1)}
\* The range patterns the compiler accepts: not empty, and open where the
\* syntax has an open end (`lo..`, `..hi`, `..=hi`).
ValidRange(ty, lo, hi, end) ==
    /\ lo.b # "PosInfinity" /\ hi.b # "NegInfinity"
    /\ hi.b = "PosInfinity" => end = "Included"
    /\ hi.b = "Finite" =>
          LET first == to_num(ty, IF lo.b = "Finite" THEN lo.value.bits ELSE MinBits(ty))
              last == to_num(ty, hi.value.bits)
          IN  IF end = "Included" THEN first <= last ELSE first < last
    /\ ~(lo.b = "NegInfinity" /\ hi.b = "PosInfinity")
IntPats(ty) ==
    {PInt(ty, v) : v \in 0..(Pow2(ty.bits) - 1)}
    \cup {PRange(ty, c[1], c[2], c[3]) :
             c \in {d \in PatBdys(ty) \X PatBdys(ty) \X {"Included", "Excluded"} :
                       ValidRange(ty, d[1], d[2], d[3])}}
\* A second pattern of the column.
SecondPats(ty) == {PInt(ty, 0), PRange(ty, BdyFinite(Const(1)), BdyPosInfinity, "Included")}
CharPats ==
    {PInt(CharTy, 97), PIncl(CharTy, 0, SURROGATE_LO), PIncl(CharTy, 97, SURROGATE_HI + 1),
     PExcl(CharTy, SURROGATE_HI, CHAR_MAX)}

RangesProbe(ty, pats) == [op |-> "ranges", ty |-> ty, pats |-> pats]
RangesProbes ==
    UNION {{RangesProbe(ty, <<p>>) : p \in IntPats(ty)}
           \cup {RangesProbe(ty, <<p, q>>) : p \in IntPats(ty), q \in SecondPats(ty)} :
             ty \in FixedIntTys \cup PtrIntTys}
    \cup {RangesProbe(CharTy, <<p>>) : p \in CharPats}
    \cup {RangesProbe(ty, <<PConstant(ty, Unevaluable)>>) :
             ty \in FixedIntTys \cup PtrIntTys \cup {CharTy}}

RangesInit ==
    /\ cx = [exhaustive_patterns |-> FALSE]
    /\ probe \in RangesProbes
    /\ scrut_ty = probe.ty
    /\ arms = <<>>
    /\ next_id = 0
    /\ rows = <<>>
    /\ report = NoReport
    /\ hoisted = <<>>
    /\ rerun = NoRun
    /\ out = NoProbe
    /\ stack = <<>>
    /\ ret = None
    /\ pc = "probe"

\* The column is lowered, the constructor set of its type split by it, and
\* every range of the split hoisted.
ProbeRanges ==
    /\ pc = "probe"
    /\ probe.op = "ranges"
    /\ \E low \in {lower_pats_from(probe.pats, next_id)} :
       \E domain \in {ctors_for_ty(probe.ty)} :
       \E parts \in {split(domain, [i \in 1..Len(low.pats) |-> low.pats[i].ctor] \o <<>>,
                           TRUE)} :
       \E all \in {SelectSeq(parts.present \o parts.missing,
                               LAMBDA c : c.tag = "IntRange")} :
           /\ out' = [op |-> "ranges", domain |-> domain, lowered |-> low.pats,
                      parts |-> Force([i \in 1..Len(all) |-> all[i].range]),
                      beyond |-> Force([i \in 1..Len(all) |->
                                           is_range_beyond_boundaries(all[i].range,
                                                                      probe.ty)]),
                      hoisted |-> Force([i \in 1..Len(all) |->
                                            hoist_pat_range(all[i].range, probe.ty)])]
           /\ next_id' = low.next
    /\ pc' = "probed"
    /\ UNCHANGED <<cx, scrut_ty, arms, rows, report, hoisted, rerun, probe, stack, ret>>

RangesNext == ProbeRanges

RangesSpec == RangesInit /\ [][RangesNext]_vars

RangesProbed == pc = "probed" /\ probe.op = "ranges"

\* The place of a value in the order of its type, counted from the least.
Encoded(ty, bits) ==
    IF ty.kind = "Int" THEN (bits + Pow2(ty.bits - 1)) % Pow2(ty.bits) ELSE bits

\* The ranges of the constructor set.
DomainRanges ==
    <<out.domain.range_1>>
      \o (IF is_some(out.domain.range_2) THEN <<unwrap(out.domain.range_2)>> ELSE <<>>)
BuiltRanges ==
    Range(DomainRanges) \cup Range(out.parts)
    \cup {out.lowered[i].ctor.range :
             i \in {j \in 1..Len(out.lowered) : out.lowered[j].ctor.tag = "IntRange"}}

\* The end of the range a pattern lowers to when hi holds the last value /
\* one past the last value.
LoweredLo(p) ==
    CASE p.kind = "Constant" -> Finite(Encoded(p.ty, p.value.bits))
      [] p.lo.b = "NegInfinity" -> NegInfinity
      [] OTHER -> Finite(Encoded(p.ty, p.lo.value.bits))
LastValue(p) ==
    CASE p.kind = "Constant" -> Finite(Encoded(p.ty, p.value.bits))
      [] p.hi.b = "PosInfinity" -> PosInfinity
      [] p.end = "Included" -> Finite(Encoded(p.ty, p.hi.value.bits))
      [] OTHER -> Finite(Encoded(p.ty, p.hi.value.bits) - 1)
OnePastLast(p) ==
    IF LastValue(p) = PosInfinity THEN PosInfinity ELSE Finite(LastValue(p).v + 1)

\* C24, as claimed: every range built by ctors_for_ty, by lowering or by
\* splitting has lo <= hi and is stored closed: hi is its last value.
C24_ClosedForm ==
    RangesProbed
        => /\ \A r \in BuiltRanges : mii_le(r.lo, r.hi)
           /\ \A i \in {j \in 1..Len(probe.pats) : Evaluable(probe.pats[j])} :
                 out.lowered[i].ctor.range
                   = [lo |-> LoweredLo(probe.pats[i]), hi |-> LastValue(probe.pats[i])]
           /\ probe.ty \in FixedIntTys
                 => out.domain.range_1.hi = Finite(Pow2(probe.ty.bits) - 1)

\* C24, amended: every range built by ctors_for_ty, by lowering or by
\* splitting has lo < hi and is stored half-open: hi is one past its last
\* value (or PosInfinity).  A pattern lowers to the range from its first
\* value to one past its last; the domain of an n-bit type ends at 2^n; the
\* ranges of a split follow one another, each starting where the one before
\* ends.
C24_HalfOpenForm ==
    RangesProbed
        => /\ \A r \in BuiltRanges : mii_lt(r.lo, r.hi)
           /\ \A i \in {j \in 1..Len(probe.pats) : Evaluable(probe.pats[j])} :
                 out.lowered[i].ctor.range
                   = [lo |-> LoweredLo(probe.pats[i]), hi |-> OnePastLast(probe.pats[i])]
           /\ probe.ty \in FixedIntTys
                 => out.domain.range_1.hi = Finite(Pow2(probe.ty.bits))
           /\ \A r \in Range(out.parts) :
                 \/ r.lo \in {d.lo : d \in Range(DomainRanges)}
                 \/ \E q \in Range(out.parts) : q.hi = r.lo
           /\ \A r, q \in Range(out.parts) :
                 r # q => (mii_le(r.hi, q.lo) \/ mii_le(q.hi, r.lo))

\* 1..=2 over u3 is stored as 1..3 and splits 0..8 into 0..1, 1..3, 3..8.
C24_Witness ==
    /\ RangesProbed
    /\ probe.ty = UintTy(3)
    /\ probe.pats = <<PIncl(UintTy(3), 1, 2)>>
    /\ out.lowered[1].ctor.range = [lo |-> Finite(1), hi |-> Finite(3)]
    /\ Range(out.parts) = {[lo |-> Finite(0), hi |-> Finite(1)],
                           [lo |-> Finite(1), hi |-> Finite(3)],
                           [lo |-> Finite(3), hi |-> Finite(8)]}

\* The values of a range stored with hi one past its last value.
FirstValue(r) == r.lo
LastContained(r) == Finite(r.hi.v - 1)
ValueCount(r) == r.hi.v - r.lo.v

\* C25: for every n-bit integer type that is not pointer-sized, signed or
\* not, ctors_for_ty returns one range (range_2 absent) running from the
\* encoding of the least value, 0, to the encoding of the greatest, 2^n - 1,
\* covering 2^n values; for char it returns the two ranges 0x0000..=0xD7FF
\* and 0xE000..=0x10FFFF, which no surrogate code point belongs to.
C25_FixedWidthDomains ==
    RangesProbed
        => /\ probe.ty \in FixedIntTys
                 => /\ out.domain.set = "Integers"
                    /\ out.domain.range_2 = None
                    /\ FirstValue(out.domain.range_1)
                         = Finite(Encoded(probe.ty, MinBits(probe.ty)))
                    /\ FirstValue(out.domain.range_1) = Finite(0)
                    /\ LastContained(out.domain.range_1)
                         = Finite(Encoded(probe.ty, MaxBits(probe.ty)))
                    /\ LastContained(out.domain.range_1) = Finite(Pow2(probe.ty.bits) - 1)
                    /\ ValueCount(out.domain.range_1) = Pow2(probe.ty.bits)
           /\ probe.ty = CharTy
                 => /\ out.domain.set = "Integers"
                    /\ is_some(out.domain.range_2)
                    /\ FirstValue(out.domain.range_1) = Finite(0)
                    /\ LastContained(out.domain.range_1) = Finite(55295)
                    /\ FirstValue(unwrap(out.domain.range_2)) = Finite(57344)
                    /\ LastContained(unwrap(out.domain.range_2)) = Finite(1114111)
                    /\ \A s \in {55296, 56319, 56320, 57343} :
                          \A r \in Range(DomainRanges) :
                             ~(mii_le(r.lo, Finite(s)) /\ mii_lt(Finite(s), r.hi))

\* The domain of i3 is the one range of the encodings 0..7.
C25_Witness ==
    /\ RangesProbed
    /\ probe.ty = IntTy(3)
    /\ out.domain.range_2 = None
    /\ FirstValue(out.domain.range_1) = Finite(0)
    /\ LastContained(out.domain.range_1) = Finite(7)
    /\ Encoded(probe.ty, MaxBits(probe.ty)) = 7

\* The surface boundary of an encoded value that fits its type.
SurfaceBdy(ty, m) ==
    CASE m = NegInfinity -> BdyNegInfinity
      [] m = PosInfinity -> BdyPosInfinity
      [] OTHER -> BdyFinite(Const(IF ty.kind = "Char" THEN m.v ELSE Encoded(ty, m.v)))
LastBdy(ty, r) ==
    IF r.hi = PosInfinity THEN BdyPosInfinity ELSE SurfaceBdy(ty, Finite(r.hi.v - 1))
OneValue(r) == r.lo.k = 1 /\ r.hi = Finite(r.lo.v + 1)
InclusiveFirstToLast(ty, r, h) ==
    /\ h.kind = "Range"
    /\ h.ty = ty
    /\ h.end = "Included"
    /\ h.lo = SurfaceBdy(ty, r.lo)
    /\ h.hi = LastBdy(ty, r)
FullDomain(r) == out.domain.range_2 = None /\ r = out.domain.range_1

\* C26, as claimed: hoist_pat_range returns a wildcard when the range is the
\* full domain of the type, a bare constant when it holds one value, and
\* otherwise an inclusive range from the first to the last value; it does
\* not fail on a range of a split.
C26_FullDomainHoistsToWild ==
    RangesProbed
        => \A i \in 1..Len(out.parts) :
              LET r == out.parts[i]
                  h == out.hoisted[i]
              IN  /\ h # PBug
                  /\ IF FullDomain(r) THEN h = PWild(probe.ty)
                     ELSE IF OneValue(r)
                     THEN h = PConstant(probe.ty, SurfaceBdy(probe.ty, r.lo).value)
                     ELSE InclusiveFirstToLast(probe.ty, r, h)

\* C26, amended: hoist_pat_range returns a wildcard only for the range from
\* NegInfinity to PosInfinity (the domain of isize), a bare constant when
\* the range holds one value, an open-ended range for the ranges beyond the
\* boundaries of a pointer-sized type, and otherwise an inclusive range from
\* the first to the last value, an infinite end staying open; the full
\* domain of any other integer type comes out as such a range, MIN..=MAX or
\* `0..`.  It does not fail on a range of a split.
C26_InfiniteRangeHoistsToWild ==
    RangesProbed
        => \A i \in 1..Len(out.parts) :
              LET r == out.parts[i]
                  h == out.hoisted[i]
              IN  /\ h # PBug
                  /\ (h = PWild(probe.ty)) <=> (r.lo = NegInfinity /\ r.hi = PosInfinity)
                  /\ IF r.lo = NegInfinity /\ r.hi = PosInfinity THEN probe.ty = ISize
                     ELSE IF OneValue(r)
                     THEN h = PConstant(probe.ty, SurfaceBdy(probe.ty, r.lo).value)
                     ELSE IF out.beyond[i] THEN h.kind = "Range"
                     ELSE InclusiveFirstToLast(probe.ty, r, h)

\* 0..=7 over u3 leaves the domain whole, and it is hoisted to 0..=7.
C26_Witness ==
    /\ RangesProbed
    /\ probe.ty = UintTy(3)
    /\ probe.pats = <<PIncl(UintTy(3), 0, 7)>>
    /\ out.parts = <<out.domain.range_1>>
    /\ out.hoisted = <<PIncl(UintTy(3), 0, 7)>>

\* The range lies below the least value of the type / above its greatest.
BelowMin(ty, r) == r.hi = Finite(Encoded(ty, MinBits(ty)))
AboveMax(ty, r) == r.lo.k >= 2 \/ (r.lo.k = 1 /\ r.lo.v > Encoded(ty, MaxBits(ty)))

\* C27: is_range_beyond_boundaries(range, ty) is true exactly when ty is
\* pointer-sized and the range lies below the least value of the type (its
\* hi is the encoding of the minimum) or above the greatest (its lo does not
\* fit the type).  The upper one is hoisted to `MAX..` (lo the greatest
\* literal, hi open), the lower one to `..MIN` with an excluded end.  For
\* other types it is false.
C27_BeyondBoundaries ==
    RangesProbed
        => \A i \in 1..Len(out.parts) :
              LET r == out.parts[i]
                  h == out.hoisted[i]
                  ty == probe.ty
              IN  /\ out.beyond[i]
                        <=> (ty \in PtrIntTys /\ (BelowMin(ty, r) \/ AboveMax(ty, r)))
                  /\ ty \notin PtrIntTys => ~out.beyond[i]
                  /\ (out.beyond[i] /\ AboveMax(ty, r))
                        => h = PRange(ty, BdyFinite(Const(MaxBits(ty))), BdyPosInfinity,
                                      "Included")
                  /\ (out.beyond[i] /\ BelowMin(ty, r))
                        => h = PRange(ty, BdyNegInfinity, BdyFinite(Const(MinBits(ty))),
                                      "Excluded")

\* MIN..=MAX over isize leaves the range below MIN and the range above MAX.
C27_Witness ==
    /\ RangesProbed
    /\ probe.ty = ISize
    /\ probe.pats = <<PIncl(ISize, MinBits(ISize), MaxBits(ISize))>>
    /\ out.beyond = <<FALSE, TRUE, TRUE>>
    /\ out.hoisted[2] = PRange(ISize, BdyNegInfinity, BdyFinite(Const(MinBits(ISize))),
                               "Excluded")
    /\ out.hoisted[3] = PRange(ISize, BdyFinite(Const(MaxBits(ISize))), BdyPosInfinity,
                               "Included")

(***************************************************************************)
(* A checking session that lowers one pattern after another: arms holds    *)
(* the surface patterns lowered so far, rows what they were lowered to,    *)
(* and next_id the OpaqueId counter.                                       *)
(***************************************************************************)
MaxLowerings == 2

F32 == FloatTy(32)
F64 == FloatTy(64)
\* Constants of the primitive types, with and without a value.
PrimitiveConsts ==
    {PTrue, PConstant(BoolTy, Unevaluable),
     PInt(I2, 3), PConstant(I2, Unevaluable),
     PInt(CharTy, 97), PConstant(CharTy, Unevaluable),
     PConstant(F32, Const(5)), PConstant(F32, Unevaluable),
     PConstant(F64, Const(5)), PConstant(F64, Unevaluable)}
\* Constants const_to_pat left alone, and error patterns.
OtherOpaques == {PConstant(ParamTy, Const(0)), PConstant(Pair, Const(0)), PError(BoolTy)}
SessionPats ==
    PrimitiveConsts \cup OtherOpaques
    \cup {PPair(POpaque, PError(BoolTy)), POr(BoolTy, <<POpaque, PTrue, POpaque>>)}

SessionInit ==
    /\ cx = [exhaustive_patterns |-> FALSE]
    /\ scrut_ty = BoolTy
    /\ arms = <<>>
    /\ next_id \in 0..MaxStartId
    /\ rows = <<>>
    /\ report = NoReport
    /\ hoisted = <<>>
    /\ rerun = NoRun
    /\ probe = NoProbe
    /\ out = NoProbe
    /\ stack = <<>>
    /\ ret = None
    /\ pc = "session"

\* One more pattern lowered in the session.
LowerInSession ==
    /\ pc = "session"
    /\ Len(rows) < MaxLowerings
    /\ \E p \in SessionPats :
       \E low \in {lower_pat(p, next_id)} :
           /\ arms' = Append(arms, p)
           /\ rows' = Append(rows, low.pat)
           /\ next_id' = low.next
    /\ UNCHANGED <<cx, scrut_ty, report, hoisted, rerun, probe, out, stack, ret, pc>>

SessionNext == LowerInSession

SessionSpec == SessionInit /\ [][SessionNext]_vars

\* The ids of the session's opaque nodes, in the order of their creation.
SessionIds == Concat([i \in 1..Len(rows) |-> OpaqueIds(rows[i])])
IsPrimitiveConst(p) ==
    p.kind = "Constant" /\ p.ty.kind \in {"Bool", "Int", "Uint", "Char", "Float"}
\* The constructor of a constant whose value is known.
ExactCtor(p) ==
    CASE p.ty.kind = "Bool" -> Bool(p.value.bits = 1)
      [] p.ty.kind = "Float" /\ p.ty.bits = 32 ->
            F32Range(FloatBits(p.value.bits), FloatBits(p.value.bits), "Included")
      [] p.ty.kind = "Float" ->
            F64Range(FloatBits(p.value.bits), FloatBits(p.value.bits), "Included")
      [] OTHER ->
            LET x == IF p.ty.kind = "Char" THEN p.value.bits ELSE Encoded(p.ty, p.value.bits)
            IN  IntRange([lo |-> Finite(x), hi |-> Finite(x + 1)])

\* C28: a bool, integer, char or float constant lowers to its exact
\* Bool/IntRange/float constructor when its value can be evaluated and to
\* Opaque otherwise; a constant of any other type and an error pattern lower
\* to Opaque; every Opaque node of the session carries an id greater than
\* every id handed out before it, so no two of them share an id, within one
\* lowering or across lowerings.
C28_FreshOpaqueIds ==
    /\ \A i \in 1..Len(rows) :
          /\ IsPrimitiveConst(arms[i])
                => IF arms[i].value.eval THEN rows[i].ctor = ExactCtor(arms[i])
                   ELSE rows[i].ctor.tag = "Opaque"
          /\ arms[i] \in OtherOpaques => rows[i].ctor.tag = "Opaque"
    /\ \A j, k \in 1..Len(SessionIds) : j < k => SessionIds[j] < SessionIds[k]
    /\ \A j \in 1..Len(SessionIds) : SessionIds[j] < next_id

\* A pair of an unevaluable constant and an error pattern, then a constant
\* of a type parameter: three ids from two lowerings.
C28_Witness ==
    /\ arms = <<PPair(POpaque, PError(BoolTy)), PConstant(ParamTy, Const(0))>>
    /\ Len(SessionIds) = 3
    /\ SessionIds[1] < SessionIds[2] /\ SessionIds[2] < SessionIds[3]

(***************************************************************************)
(* rustc_borrowck::polonius::constraint_generation -- the visitor that     *)
(* records the cfg_edge and loan_killed_at facts of a MIR body.            *)
(* probe holds what the visitor is given (the body, the borrow set), out   *)
(* the facts, ret the location of the statement or terminator to visit.    *)
(***************************************************************************)
MaxBorrows == 2

body == probe.body
borrow_set == probe.borrow_set
all_facts == out
location == ret

Deref == <<"Deref">>
Field(i) == <<"Field", i>>
Place(local, projection) == [local |-> local, projection |-> projection]

Assign(place) == [kind |-> "Assign", place |-> place]
StorageDead(local) == [kind |-> "StorageDead", local |-> local]
StorageLive(local) == [kind |-> "StorageLive", local |-> local]
Goto(target) == [kind |-> "Goto", target |-> target]
Call(destination, target) ==
    [kind |-> "Call", destination |-> destination, target |-> target]
Return == [kind |-> "Return"]
BasicBlockData(statements, terminator) ==
    [statements |-> statements, terminator |-> terminator]

\* Terminator::successors
successors(terminator) ==
    IF terminator.kind \in {"Goto", "Call"} THEN <<terminator.target>> ELSE <<>>

Location(block, statement_index) == [block |-> block, statement_index |-> statement_index]
successor_within_block(l) == Location(l.block, l.statement_index + 1)
start_location(block) == Location(block, 0)

\* LocationTable: every statement and terminator has two points, start and
\* mid, numbered through the blocks in order.
RECURSIVE statements_before_block(_)
statements_before_block(block) ==
    IF block = 0 THEN 0
    ELSE statements_before_block(block - 1) + Len(body[block].statements) + 1
start_index(l) == (statements_before_block(l.block) + l.statement_index) * 2
mid_index(l) == (statements_before_block(l.block) + l.statement_index) * 2 + 1

\* BorrowSet::local_map.get(local): the indices of the borrows whose
\* borrowed place is based on the local, None when there is none.
local_map_get(local) ==
    LET borrow_indices ==
            SelectSeq([i \in 1..Len(borrow_set) |-> i - 1],
                      LAMBDA b : borrow_set[b + 1].borrowed_place.local = local)
    IN  IF borrow_indices = <<>> THEN None ELSE Some(borrow_indices)

\* places_conflict with PlaceConflictBias::NoOverlap, for places made of
\* derefs and fields: two places of one local conflict unless they part at
\* two different fields.
places_conflict(borrow_place, access_place) ==
    /\ borrow_place.local = access_place.local
    /\ \A i \in 1..Len(borrow_place.projection) :
          i <= Len(access_place.projection)
             => borrow_place.projection[i] = access_place.projection[i]

AllFacts(cfg_edge, loan_killed_at) == [cfg_edge |-> cfg_edge, loan_killed_at |-> loan_killed_at]

record_killed_borrows_for_local(facts, local, l) ==
    LET entry == local_map_get(local)
    IN  IF is_some(entry)
        THEN LET borrow_indices == unwrap(entry)
             IN  [facts EXCEPT !.loan_killed_at =
                     @ \o [i \in 1..Len(borrow_indices) |->
                              <<borrow_indices[i], mid_index(l)>>]]
        ELSE facts

\* The filter of the deeper projections left out.
record_killed_borrows_for_place_unfiltered(facts, place, l) ==
    IF ~is_some(facts) THEN facts
    ELSE Some(record_killed_borrows_for_local(unwrap(facts), place.local, l))

record_killed_borrows_for_place(facts, place, l) ==
    IF ~is_some(facts) THEN facts
    ELSE IF place.projection = <<>> \/ place.projection = <<Deref>>
    THEN Some(record_killed_borrows_for_local(unwrap(facts), place.local, l))
    ELSE LET entry == local_map_get(place.local)
         IN  IF is_some(entry)
             THEN LET conflicting ==
                          SelectSeq(unwrap(entry),
                                    LAMBDA b : places_conflict(
                                                   borrow_set[b + 1].borrowed_place, place))
                  IN  Some([unwrap(facts) EXCEPT !.loan_killed_at =
                              @ \o [i \in 1..Len(conflicting) |->
                                       <<conflicting[i], mid_index(l)>>]])
             ELSE facts

\* Locals: _1 is a pair, _2 a reference to a pair.
PairPlaces == {Place(1, <<>>), Place(1, <<Field(0)>>), Place(1, <<Field(1)>>)}
RefPlaces ==
    {Place(2, <<>>), Place(2, <<Deref>>), Place(2, <<Deref, Field(0)>>),
     Place(2, <<Deref, Field(1)>>)}
BorrowedPlaces ==
    {Place(1, <<Field(0)>>), Place(1, <<Field(1)>>), Place(2, <<Deref>>),
     Place(2, <<Deref, Field(0)>>)}
BorrowSets ==
    UNION {[1..n -> {[borrowed_place |-> p] : p \in BorrowedPlaces}] : n \in 0..MaxBorrows}
Statements ==
    {Assign(p) : p \in PairPlaces \cup RefPlaces}
    \cup {StorageDead(1), StorageDead(2), StorageLive(1)}
Terminators == {Goto(1), Call(Place(1, <<>>), 1), Call(Place(2, <<Deref, Field(0)>>), 1)}
\* Two blocks: a statement and a terminator that leads to the second, which
\* ends the storage of _1 and returns.
Bodies ==
    {<<BasicBlockData(<<s>>, t), BasicBlockData(<<StorageDead(1)>>, Return)>> :
        s \in Statements, t \in Terminators}

PoloniusInit ==
    /\ cx = [exhaustive_patterns |-> FALSE]
    /\ scrut_ty = BoolTy
    /\ arms = <<>>
    /\ next_id = 0
    /\ rows = <<>>
    /\ report = NoReport
    /\ hoisted = <<>>
    /\ rerun = NoRun
    /\ \E b \in Bodies, bs \in BorrowSets :
          probe = [op |-> "polonius", body |-> b, borrow_set |-> Force(bs)]
    /\ out \in {None, Some(AllFacts(<<>>, <<>>))}
    /\ stack = <<>>
    /\ ret = start_location(0)
    /\ pc = "visit"

\* visit_statement, with the visit_assign that super_statement leads to.
VisitStatement ==
    /\ pc = "visit"
    /\ location.statement_index < Len(body[location.block + 1].statements)
    /\ LET statement == body[location.block + 1].statements[location.statement_index + 1]
           edges == IF is_some(all_facts)
                    THEN Some([unwrap(all_facts) EXCEPT !.cfg_edge =
                                  @ \o <<<<start_index(location), mid_index(location)>>,
                                         <<mid_index(location),
                                           start_index(successor_within_block(location))>>>>])
                    ELSE all_facts
           dead == IF is_some(edges) /\ statement.kind = "StorageDead"
                   THEN Some(record_killed_borrows_for_local(unwrap(edges), statement.local,
                                                             location))
                   ELSE edges
       IN  all_facts' = IF statement.kind = "Assign"
                        THEN record_killed_borrows_for_place(dead, statement.place, location)
                        ELSE dead
    /\ location' = successor_within_block(location)
    /\ UNCHANGED <<cx, scrut_ty, arms, rows, report, hoisted, next_id, rerun, probe, stack,
                   pc>>

\* visit_terminator; the walk goes on with the next block, if there is one.
VisitTerminator ==
    /\ pc = "visit"
    /\ location.statement_index = Len(body[location.block + 1].statements)
    /\ LET terminator == body[location.block + 1].terminator
           successor_blocks == successors(terminator)
           edges == IF is_some(all_facts)
                    THEN Some([unwrap(all_facts) EXCEPT !.cfg_edge =
                                  @ \o <<<<start_index(location), mid_index(location)>>>>
                                    \o [i \in 1..Len(successor_blocks) |->
                                           <<mid_index(location),
                                             start_index(start_location(
                                                 successor_blocks[i]))>>]])
                    ELSE all_facts
       IN  all_facts' = IF terminator.kind = "Call"
                        THEN record_killed_borrows_for_place(edges, terminator.destination,
                                                             location)
                        ELSE edges
    /\ IF location.block + 1 < Len(body)
       THEN location' = start_location(location.block + 1) /\ pc' = pc
       ELSE location' = location /\ pc' = "done"
    /\ UNCHANGED <<cx, scrut_ty, arms, rows, report, hoisted, next_id, rerun, probe, stack>>

PoloniusNext == VisitStatement \/ VisitTerminator

PoloniusSpec == PoloniusInit /\ [][PoloniusNext]_vars

\* What is visited in this step, and the kills the step adds.
AtStatement == location.statement_index < Len(body[location.block + 1].statements)
Visited ==
    IF AtStatement THEN body[location.block + 1].statements[location.statement_index + 1]
    ELSE body[location.block + 1].terminator
KillsBefore == unwrap(all_facts).loan_killed_at
KillsAfter == unwrap(all_facts').loan_killed_at
NewKills == SubSeq(KillsAfter, Len(KillsBefore) + 1, Len(KillsAfter))
\* The borrows of a local, and those a write to the place kills.
BorrowsOf(local) ==
    {b \in 0..(Len(borrow_set) - 1) : borrow_set[b + 1].borrowed_place.local = local}
KilledBy(place) ==
    IF Len(place.projection) = 0 \/ place.projection = <<Deref>>
    THEN BorrowsOf(place.local)
    ELSE {b \in BorrowsOf(place.local) :
             places_conflict(borrow_set[b + 1].borrowed_place, place)}
VisitedPoint == (statements_before_block(location.block) + location.statement_index) * 2 + 1
ExpectedKills ==
    CASE Visited.kind = "Assign" -> KilledBy(Visited.place)
      [] Visited.kind = "Call" -> KilledBy(Visited.destination)
      [] Visited.kind = "StorageDead" -> BorrowsOf(Visited.local)
      [] OTHER -> {}

\* C29: with fact collection enabled, the visit of an assignment to, or of a
\* call returning into, a bare local or a single deref of a local adds
\* (b, mid(location)) to loan_killed_at for every borrow b of the local; for
\* a deeper place it adds it only for the borrows of the base local whose
\* borrowed place conflicts with the place written; StorageDead(local) adds
\* it for every borrow of the local; every other visit adds no kill, and no
\* visit removes a fact.  With all_facts None no visit records anything.
C29_LoanKills ==
    [][pc = "visit"
         => IF ~is_some(all_facts) THEN all_facts' = None
            ELSE /\ is_some(all_facts')
                 /\ SubSeq(KillsAfter, 1, Len(KillsBefore)) = KillsBefore
                 /\ Range(NewKills) = {<<b, VisitedPoint>> : b \in ExpectedKills}
                 /\ Len(NewKills) = Cardinality(ExpectedKills)
                 /\ SubSeq(unwrap(all_facts').cfg_edge, 1, Len(unwrap(all_facts).cfg_edge))
                       = unwrap(all_facts).cfg_edge]_vars

\* After `_1.0 = ..` with borrows of _1.0 and of _1.1: the first is killed at
\* the mid point of the statement, the second is not.
C29_Witness ==
    /\ pc = "visit"
    /\ probe.op = "polonius"
    /\ body[1].statements = <<Assign(Place(1, <<Field(0)>>))>>
    /\ borrow_set = <<[borrowed_place |-> Place(1, <<Field(0)>>)],
                      [borrowed_place |-> Place(1, <<Field(1)>>)]>>
    /\ location = Location(0, 1)
    /\ is_some(all_facts)
    /\ unwrap(all_facts).loan_killed_at = <<<<0, 1>>>>

(***************************************************************************)
(* ra_assists::handlers::merge_imports.  A file is a sequence of use       *)
(* items, each `use <tree>;` followed by a newline; a use tree is a path   *)
(* and, optionally, a brace list of use trees.  Text is a sequence of      *)
(* tokens, an offset a number of characters from the start of the file.    *)
(* probe holds the file and the cursor, out what the assist returns.       *)
(***************************************************************************)
MaxItems == 3

UseTree(path, use_tree_list) == [path |-> path, use_tree_list |-> use_tree_list]
PathTree(path) == UseTree(path, None)

RECURSIVE Join(_, _)
Join(ss, sep) ==
    IF ss = <<>> THEN <<>>
    ELSE IF Len(ss) = 1 THEN ss[1]
    ELSE ss[1] \o sep \o Join(Tail(ss), sep)
RECURSIVE TextLen(_)
TextLen(tokens) == IF tokens = <<>> THEN 0 ELSE Len(Head(tokens)) + TextLen(Tail(tokens))

\* The tokens of a path, of a use tree, of a use item and of a file.
path_text(path) == Join([i \in 1..Len(path) |-> <<path[i]>>], <<"::">>)
RECURSIVE tree_text(_)
tree_text(t) ==
    path_text(t.path)
      \o (IF is_some(t.use_tree_list)
          THEN (IF t.path # <<>> THEN <<"::">> ELSE <<>>)
                 \o <<"{">>
                 \o Join([i \in 1..Len(unwrap(t.use_tree_list)) |->
                             tree_text(unwrap(t.use_tree_list)[i])], <<",", " ">>)
                 \o <<"}">>
          ELSE <<>>)
item_text(t) == <<"use", " ">> \o tree_text(t) \o <<";">>
file_text(items) == Concat([i \in 1..Len(items) |-> item_text(items[i]) \o <<"\n">>])

TextRange(start, end) == [start |-> start, end |-> end]
\* The ranges of the i-th use item, of its use tree, and of the j-th tree of
\* the brace list of that tree.
RECURSIVE item_start(_, _)
item_start(items, i) ==
    IF i = 1 THEN 0
    ELSE item_start(items, i - 1) + TextLen(item_text(items[i - 1])) + 1
item_range(items, i) ==
    TextRange(item_start(items, i), item_start(items, i) + TextLen(item_text(items[i])))
top_range(items, i) ==
    TextRange(item_start(items, i) + 4,
              item_start(items, i) + 4 + TextLen(tree_text(items[i])))
RECURSIVE nested_start(_, _, _)
nested_start(items, i, j) ==
    IF j = 1
    THEN top_range(items, i).start + TextLen(path_text(items[i].path))
           + (IF items[i].path # <<>> THEN 2 ELSE 0) + 1
    ELSE nested_start(items, i, j - 1)
           + TextLen(tree_text(unwrap(items[i].use_tree_list)[j - 1])) + 2
nested_range(items, i, j) ==
    TextRange(nested_start(items, i, j),
              nested_start(items, i, j)
                + TextLen(tree_text(unwrap(items[i].use_tree_list)[j])))

\* A use tree of the file: the tree of item i (nested = 0) or the nested-th
\* tree of its brace list.
Node(item, nested) == [item |-> item, nested |-> nested]
node_tree(items, n) ==
    IF n.nested = 0 THEN items[n.item] ELSE unwrap(items[n.item].use_tree_list)[n.nested]
node_range(items, n) ==
    IF n.nested = 0 THEN top_range(items, n.item)
    ELSE nested_range(items, n.item, n.nested)

\* ctx.find_node_at_offset::<ast::UseTree>(): the innermost use tree that
\* the cursor is in or at an end of.
find_node_at_offset(items, offset) ==
    LET at(n) == node_range(items, n).start <= offset /\ offset <= node_range(items, n).end
        inner == {n \in {Node(i, j) : i \in 1..Len(items), j \in 1..MaxItems} :
                     /\ is_some(items[n.item].use_tree_list)
                     /\ n.nested <= Len(unwrap(items[n.item].use_tree_list))
                     /\ at(n)}
        outer == {n \in {Node(i, 0) : i \in 1..Len(items)} : at(n)}
    IN  IF inner # {} THEN Some(CHOOSE n \in inner : TRUE)
        ELSE IF outer # {} THEN Some(CHOOSE n \in outer : TRUE)
        ELSE None

next_prev == <<"Next", "Prev">>

\* algo::neighbor: the sibling of the same kind on that side, if any.
neighbor(items, n, dir) ==
    LET count == IF n.nested = 0 THEN Len(items)
                 ELSE Len(unwrap(items[n.item].use_tree_list))
        at == IF n.nested = 0 THEN n.item ELSE n.nested
        to == IF dir = "Next" THEN at + 1 ELSE at - 1
    IN  IF to < 1 \/ to > count THEN None
        ELSE Some(IF n.nested = 0 THEN Node(to, 0) ELSE Node(n.item, to))

\* The number of leading segments two paths share, None when the first
\* segments differ.
common_prefix(lhs, rhs) ==
    LET shared == {k \in 0..Len(lhs) : k <= Len(rhs) /\ \A i \in 1..k : lhs[i] = rhs[i]}
        longest == CHOOSE k \in shared : \A m \in shared : m <= k
    IN  IF longest = 0 THEN None ELSE Some(longest)

\* ast::UseTree::split_prefix: prefix::{rest}; a tree whose whole path is the
\* prefix is returned as it is.
split_prefix(t, prefix) ==
    IF prefix = Len(t.path) THEN t
    ELSE UseTree(SubSeq(t.path, 1, prefix),
                 Some(<<UseTree(SubSeq(t.path, prefix + 1, Len(t.path)), t.use_tree_list)>>))

try_merge_trees(old, new) ==
    IF old.path = <<>> \/ new.path = <<>> THEN None
    ELSE LET prefix == common_prefix(old.path, new.path)
         IN  IF ~is_some(prefix) THEN None
             ELSE LET lhs == split_prefix(old, unwrap(prefix))
                      rhs == split_prefix(new, unwrap(prefix))
                  IN  IF ~is_some(rhs.use_tree_list) \/ ~is_some(lhs.use_tree_list)
                      THEN None
                      ELSE Some(UseTree(lhs.path, Some(unwrap(lhs.use_tree_list)
                                                         \o unwrap(rhs.use_tree_list))))

\* The tokens of a text before an offset / from an offset on; the offsets
\* used are token boundaries.
RECURSIVE TokensBefore(_, _)
TokensBefore(tokens, offset) ==
    IF tokens = <<>> \/ offset < Len(Head(tokens)) THEN <<>>
    ELSE <<Head(tokens)>> \o TokensBefore(Tail(tokens), offset - Len(Head(tokens)))
TokensFrom(tokens, offset) ==
    SubSeq(tokens, Len(TokensBefore(tokens, offset)) + 1, Len(tokens))
TokensBetween(tokens, from, to) ==
    SubSeq(tokens, Len(TokensBefore(tokens, from)) + 1, Len(TokensBefore(tokens, to)))

\* edit.replace_ast(tree, new_tree); edit.delete(to_delete): the two ranges
\* do not overlap.
apply_edits(tokens, tree_range, new_tree, to_delete) ==
    IF tree_range.end <= to_delete.start
    THEN TokensBefore(tokens, tree_range.start) \o tree_text(new_tree)
           \o TokensBetween(tokens, tree_range.end, to_delete.start)
           \o TokensFrom(tokens, to_delete.end)
    ELSE TokensBefore(tokens, to_delete.start)
           \o TokensBetween(tokens, to_delete.end, tree_range.start)
           \o tree_text(new_tree) \o TokensFrom(tokens, tree_range.end)

\* The first of the next and the previous neighbour that the tree merges
\* with, and the merged tree.
find_merge(items, n) ==
    LET tried == SelectSeq([d \in 1..2 |->
                              LET nb == neighbor(items, n, next_prev[d])
                              IN  IF is_some(nb)
                                  THEN [nb |-> nb,
                                        merged |-> try_merge_trees(
                                                       node_tree(items, n),
                                                       node_tree(items, unwrap(nb)))]
                                  ELSE [nb |-> None, merged |-> None]],
                           LAMBDA c : is_some(c.merged))
    IN  IF tried = <<>> THEN None
        ELSE Some([merged |-> unwrap(tried[1].merged), to_delete |-> unwrap(tried[1].nb)])

Assist(text, cursor) == [text |-> text, cursor |-> cursor]

merge_imports(items, frange_start) ==
    LET found == find_node_at_offset(items, frange_start)
    IN  IF ~is_some(found) THEN None
        ELSE LET tree == unwrap(found)
                 m == find_merge(items, tree)
             IN  IF ~is_some(m) THEN None
                 ELSE LET to_delete == unwrap(m).to_delete
                          range0 == node_range(items, to_delete)
                          range ==
                              IF tree.nested = 0
                              THEN \* the whitespace after the use item goes with it
                                   TextRange(item_range(items, to_delete.item).start,
                                             item_range(items, to_delete.item).end + 1)
                              ELSE IF is_some(neighbor(items, to_delete, "Next"))
                              THEN TextRange(range0.start,
                                             node_range(items,
                                                        unwrap(neighbor(items, to_delete,
                                                                        "Next"))).start)
                              ELSE IF is_some(neighbor(items, to_delete, "Prev"))
                              THEN TextRange(node_range(items,
                                                        unwrap(neighbor(items, to_delete,
                                                                        "Prev"))).end,
                                             range0.end)
                              ELSE range0
                          offset == IF range.end <= frange_start
                                    THEN frange_start - (range.end - range.start)
                                    ELSE frange_start
                      IN  Some(Assist(apply_edits(file_text(items), node_range(items, tree),
                                                  unwrap(m).merged, range),
                                      offset))

TopTrees ==
    {PathTree(<<"std", "fmt", "Debug">>), PathTree(<<"std", "fmt", "Display">>),
     PathTree(<<"std", "fmt">>), PathTree(<<"io", "Read">>)}
NestedTrees ==
    {PathTree(<<"fmt", "Debug">>), PathTree(<<"fmt", "Display">>), PathTree(<<"fmt">>),
     PathTree(<<"io", "Read">>)}
\* Files of two to MaxItems use items, and files of one use item with a
\* brace list of two to MaxItems trees.
MergeFiles(max) ==
    UNION {[1..n -> TopTrees] : n \in 2..max}
    \cup {<<UseTree(<<"std">>, Some(Force(l)))>> :
             l \in UNION {[1..n -> NestedTrees] : n \in 2..max}}
MergeProbes(max) ==
    UNION {{[op |-> "merge", items |-> Force(f), cursor |-> c] :
               c \in 0..TextLen(file_text(f))} : f \in MergeFiles(max)}

MergeInit ==
    /\ cx = [exhaustive_patterns |-> FALSE]
    /\ scrut_ty = BoolTy
    /\ arms = <<>>
    /\ next_id = 0
    /\ rows = <<>>
    /\ report = NoReport
    /\ hoisted = <<>>
    /\ rerun = NoRun
    /\ probe \in MergeProbes(MaxItems)
    /\ out = NoProbe
    /\ stack = <<>>
    /\ ret = None
    /\ pc = "probe"

\* The assist is asked for at the cursor.
MergeImports ==
    /\ pc = "probe"
    /\ probe.op = "merge"
    /\ out' = [op |-> "merge", assist |-> merge_imports(probe.items, probe.cursor)]
    /\ pc' = "probed"
    /\ UNCHANGED <<cx, scrut_ty, arms, rows, report, hoisted, next_id, rerun, probe, stack,
                   ret>>

MergeNext == MergeImports

MergeSpec == MergeInit /\ [][MergeNext]_vars

MergeProbed == pc = "probed" /\ probe.op = "merge"

\* The use tree under the cursor, and its neighbours, the next one first.
CursorTree == unwrap(find_node_at_offset(probe.items, probe.cursor))
UnderCursor == is_some(find_node_at_offset(probe.items, probe.cursor))
Neighbours ==
    SelectSeq([d \in 1..2 |-> neighbor(probe.items, CursorTree, next_prev[d])], is_some)
\* The leading segments two trees share.
SharedPrefix(a, b) ==
    LET ks == {k \in 0..Len(a.path) :
                  k <= Len(b.path) /\ SubSeq(a.path, 1, k) = SubSeq(b.path, 1, k)}
    IN  CHOOSE k \in ks : \A m \in ks : m <= k
Sharing ==
    SelectSeq(Neighbours,
              LAMBDA nb : SharedPrefix(node_tree(probe.items, CursorTree),
                                       node_tree(probe.items, unwrap(nb))) > 0)
Neighbour == unwrap(Sharing[1])
\* What a tree leaves for the brace list once the prefix is taken off.
ItemsAfter(t, k) ==
    IF k < Len(t.path) THEN <<UseTree(SubSeq(t.path, k + 1, Len(t.path)), t.use_tree_list)>>
    ELSE IF is_some(t.use_tree_list) THEN unwrap(t.use_tree_list)
    ELSE <<>>
MergedTree ==
    LET t == node_tree(probe.items, CursorTree)
        n == node_tree(probe.items, Neighbour)
        k == SharedPrefix(t, n)
    IN  UseTree(SubSeq(t.path, 1, k), Some(ItemsAfter(t, k) \o ItemsAfter(n, k)))
\* A sequence with element at replaced by x and element gone removed.
MergedInto(s, at, x, gone) ==
    LET put == [i \in 1..Len(s) |-> [keep |-> i # gone, v |-> IF i = at THEN x ELSE s[i]]]
        kept == SelectSeq(put, LAMBDA e : e.keep)
    IN  [i \in 1..Len(kept) |-> kept[i].v]
\* The file after the merge, and the cursor's tree in it.
MergedItems ==
    IF CursorTree.nested = 0
    THEN MergedInto(probe.items, CursorTree.item, MergedTree, Neighbour.item)
    ELSE <<UseTree(probe.items[1].path,
                   Some(MergedInto(unwrap(probe.items[1].use_tree_list), CursorTree.nested,
                                   MergedTree, Neighbour.nested)))>>
MergedNode ==
    IF CursorTree.nested = 0
    THEN Node(CursorTree.item - (IF Neighbour.item < CursorTree.item THEN 1 ELSE 0), 0)
    ELSE Node(1, CursorTree.nested - (IF Neighbour.nested < CursorTree.nested THEN 1 ELSE 0))
\* The cursor as far into its tree as it was.
CursorKept ==
    node_range(MergedItems, MergedNode).start
      + (probe.cursor - node_range(probe.items, CursorTree).start)
DeletedLen ==
    TextLen(file_text(probe.items)) - TextLen(tree_text(node_tree(probe.items, CursorTree)))
      + TextLen(tree_text(MergedTree)) - TextLen(out.assist[1].text)
MergeAsClaimed ==
    /\ is_some(out.assist)
    /\ out.assist[1].text = file_text(MergedItems)
    /\ out.assist[1].cursor = CursorKept
    /\ out.assist[1].cursor \in {probe.cursor, probe.cursor - DeletedLen}
    /\ (out.assist[1].cursor = probe.cursor - DeletedLen)
          <=> (node_range(probe.items, Neighbour).end <= probe.cursor)

\* C30: when the use tree under the cursor and a neighbouring use item or
\* tree, the next one before the previous one, share a leading path prefix,
\* the assist replaces the cursor's tree by prefix::{cursor's items,
\* neighbour's items}, removes the neighbour with the whitespace or comma
\* that separates it, and keeps the cursor where it was in its tree, its
\* offset lowered by the length removed exactly when what is removed ends at
\* or before it; when no neighbour shares a prefix the assist is not offered.
C30_MergeImports ==
    (MergeProbed /\ UnderCursor)
        => IF Sharing # <<>> THEN MergeAsClaimed ELSE ~is_some(out.assist)

\* The neighbours that have something to put into the brace list: the
\* shared prefix ends before the end of the path of both trees.
Mergeable ==
    SelectSeq(Neighbours,
              LAMBDA nb :
                 LET t == node_tree(probe.items, CursorTree)
                     n == node_tree(probe.items, unwrap(nb))
                 IN  /\ SharedPrefix(t, n) > 0
                     /\ SharedPrefix(t, n) < Len(t.path)
                     /\ SharedPrefix(t, n) < Len(n.path))
\* Where every sharing neighbour is of that kind, the assist does what is
\* claimed.
MergesWhenBothHaveItems ==
    (MergeProbed /\ UnderCursor /\ Mergeable = Sharing)
        => IF Sharing # <<>> THEN MergeAsClaimed ELSE ~is_some(out.assist)

\* `use std::fmt<|>;` before `use std::fmt::Debug;`: the two share std::fmt,
\* and the assist is not offered.
C30_Witness ==
    /\ MergeProbed
    /\ probe.items = <<PathTree(<<"std", "fmt">>), PathTree(<<"std", "fmt", "Debug">>)>>
    /\ probe.cursor = 12
    /\ UnderCursor
    /\ Sharing # <<>>
    /\ ~is_some(out.assist)

\* test_merge_second: the cursor in the second of two items, the first
\* merged into it and removed, the cursor moved back by its length.
MergeSecondReached ==
    /\ MergeProbed
    /\ probe.items = <<PathTree(<<"std", "fmt", "Debug">>),
                       PathTree(<<"std", "fmt", "Display">>)>>
    /\ probe.cursor = 33
    /\ out.assist = Some(Assist(<<"use", " ", "std", "::", "fmt", "::", "{", "Display", ",",
                                  " ", "Debug", "}", ";", "\n">>, 12))

=============================================================================
